---- MODULE Spec2Model ----
(***************************************************************************)
(* Model of the marketplace aggregation service                            *)
(* (backend/marketplace_service/main.py): the result cache, the WB         *)
(* paginated-API collector with its rate limiter, retry loop and shared    *)
(* cooldown, the Ozon browser collector, and the get_products              *)
(* orchestrator.                                                           *)
(*                                                                         *)
(* Text is a sequence of one-character strings, so that stripping,         *)
(* digit filtering and integer formatting are computed, not assumed.       *)
(* Time is an integer clock; one tick is one second.                       *)
(***************************************************************************)
EXTENDS Integers, Sequences, FiniteSets, TLC

\* ------------------------------------------------------------------ bounds

\* The clock stops at MaxTime in the orchestrator's specification, and at
\* MaxRateTime in the rate limiter's.
MaxTime == 3
MaxRateTime == 7

\* ------------------------------------------- configuration (os.getenv values)
\* Every value below is read from the environment by the program; the model
\* runs the service under a small configuration so that caps, retries and
\* expiry all happen within the clock's range.

MAX_ITEMS == 2
CACHE_TTL == 2
WB_ITEMS == 3
OZON_ITEMS == 2
WB_MAX_PAGES == 2
OZON_RETRIES == 2
OZON_MIN_ITEMS == 2
OZON_SCROLL_ROUNDS == 3
OZON_STAGNATION_LIMIT == 2
OZON_BROWSER_LIMIT == 1
WB_CONCURRENT_LIMIT == 2
WB_MIN_INTERVAL == 2
WB_MAX_RETRIES == 3
WB_BACKOFF_BASE == 2
WB_BACKOFF_MAX == 3

\* ------------------------------------------------------------------ text

Digits == {"0", "1", "2", "3", "4", "5", "6", "7", "8", "9"}
DigitChars == <<"0", "1", "2", "3", "4", "5", "6", "7", "8", "9">>

\* Python's None, and the wrappers of the values a JSON field can hold.
None == [t |-> "none"]
IntV(n) == [t |-> "int", v |-> n]
StrV(s) == [t |-> "str", s |-> s]

\* str(n) of a non-negative integer.
RECURSIVE str(_)
str(n) == IF n < 10 THEN <<DigitChars[n + 1]>>
          ELSE str(n \div 10) \o <<DigitChars[(n % 10) + 1]>>

\* str.isdigit(): non-empty and digits only.
isdigit(s) == Len(s) > 0 /\ \A i \in 1..Len(s) : s[i] \in Digits

IsDigitChar(c) == c \in Digits

\* re.sub(r"[^\d]", "", s or "")
digits_only(s) == SelectSeq(s, IsDigitChar)

\* The characters str.strip() removes; "~" stands for the no-break space.
IsSpace(c) == c = " "

RECURSIVE lstrip(_)
lstrip(s) == IF s # <<>> /\ IsSpace(Head(s)) THEN lstrip(Tail(s)) ELSE s

RECURSIVE rstrip(_)
rstrip(s) == IF s # <<>> /\ IsSpace(s[Len(s)])
             THEN rstrip(SubSeq(s, 1, Len(s) - 1)) ELSE s

strip(s) == rstrip(lstrip(s))

ReplaceNbsp(c) == IF c = "~" THEN " " ELSE c

\* (s or "").replace(NBSP, " ").strip()
_clean_spaces(s) == strip([i \in 1..Len(s) |-> ReplaceNbsp(s[i])])

\* s[:n]
Take(s, n) == SubSeq(s, 1, IF n < Len(s) THEN n ELSE Len(s))

Min(a, b) == IF a < b THEN a ELSE b
Max(a, b) == IF a > b THEN a ELSE b

\* ------------------------------------------------------------------ items

\* valid_product_item without the seen-set test of line 179.
valid_product_item_noseen(item, seen) ==
    /\ item.url # <<>>
    /\ item.name # <<>>
    /\ item.price # <<>>
    /\ isdigit(item.price)

valid_product_item(item, seen) ==
    /\ item.url # <<>>
    /\ item.name # <<>>
    /\ item.price # <<>>
    /\ item.url \notin seen
    /\ isdigit(item.price)

\* ------------------------------------------------- WB paginated collector

\* The products of the WB search payloads the model feeds the collector.
\* id: p["id"] or p["nmId"] ("" when both are missing); name: p["name"];
\* sizes_product: sizes[0]["price"]["product"]; priceU, salePriceU: the
\* fallback price fields.  A StrV price is one int() cannot parse.
\* rating, feedbacks: the optional fields; img: a ready image url.
WbProducts == {
    [id |-> "1", name |-> <<"n">>, sizes_product |-> IntV(15000), priceU |-> None, salePriceU |-> None,
     rating |-> IntV(5), feedbacks |-> IntV(7), img |-> StrV(<<"h">>)],
    [id |-> "1", name |-> <<"m">>, sizes_product |-> None, priceU |-> IntV(20000), salePriceU |-> None,
     rating |-> None, feedbacks |-> None, img |-> None],
    [id |-> "2", name |-> <<" ">>, sizes_product |-> None, priceU |-> None, salePriceU |-> IntV(99),
     rating |-> None, feedbacks |-> None, img |-> None],
    [id |-> "", name |-> <<"k">>, sizes_product |-> IntV(100), priceU |-> None, salePriceU |-> None,
     rating |-> None, feedbacks |-> None, img |-> None],
    [id |-> "3", name |-> <<>>, sizes_product |-> IntV(100), priceU |-> None, salePriceU |-> None,
     rating |-> None, feedbacks |-> None, img |-> None],
    [id |-> "4", name |-> <<"k">>, sizes_product |-> StrV(<<"x">>), priceU |-> None, salePriceU |-> None,
     rating |-> None, feedbacks |-> None, img |-> None],
    [id |-> "5", name |-> <<"k">>, sizes_product |-> None, priceU |-> IntV(0), salePriceU |-> IntV(1234),
     rating |-> None, feedbacks |-> None, img |-> None],
    [id |-> "6", name |-> <<"k">>, sizes_product |-> None, priceU |-> None, salePriceU |-> None,
     rating |-> None, feedbacks |-> None, img |-> None] }

\* Python truthiness of a price field ("x or y").
Truthy(v) == \/ (v.t = "int" /\ v.v # 0)
             \/ (v.t = "str" /\ v.s # <<>>)

\* sizes[0].price.product, else priceU or salePriceU or 0 (lines 461-466).
WbProductPrice(p) ==
    IF p.sizes_product # None THEN p.sizes_product
    ELSE IF Truthy(p.priceU) THEN p.priceU
    ELSE IF Truthy(p.salePriceU) THEN p.salePriceU
    ELSE IntV(0)

\* int(product_price) raises for a value that is no number (line 468).
WbEntryRaises(p) == WbProductPrice(p).t # "int"

\* price_rub (line 468)
WbPriceRub(p) ==
    LET v == WbProductPrice(p).v
    IN  IF v > 0 THEN str(v \div 100) ELSE <<"0">>

\* link (line 470)
WbLink(pid) ==
    IF pid # "" THEN <<"https://www.wildberries.ru", "catalog", pid, "detail.aspx">>
    ELSE <<>>

\* str(p.get(key)) when the field is there, else "" (lines 472-473).
WbOptional(v) == IF v = None THEN <<>> ELSE IF v.t = "int" THEN str(v.v) ELSE v.s

\* _wb_extract_img_url (lines 385-410): a ready url, else the url built
\* from the id, else "".
_wb_extract_img_url(p) ==
    IF p.img # None THEN p.img.s
    ELSE IF p.id # "" THEN <<"https://basket", p.id, "images", "big", "1.webp">>
    ELSE <<>>

\* The item built from one product (lines 476-484).
WbItem(p) ==
    [marketplace |-> "wildberries",
     name |-> p.name,
     url |-> WbLink(p.id),
     price |-> WbPriceRub(p),
     rating |-> WbOptional(p.rating),
     reviews |-> WbOptional(p.feedbacks),
     img_url |-> _wb_extract_img_url(p)]

\* The for loop over one page's products (lines 455-492): acc = [out, seen].
RECURSIVE WbExtractPage(_, _, _)
WbExtractPage(products, acc, limit) ==
    IF products = <<>> THEN acc
    ELSE LET p == Head(products)
         IN  IF WbEntryRaises(p) THEN WbExtractPage(Tail(products), acc, limit)
             ELSE IF valid_product_item(WbItem(p), acc.seen)
             THEN LET a2 == [out |-> Append(acc.out, WbItem(p)),
                             seen |-> acc.seen \cup {WbItem(p).url}]
                  IN  IF Len(a2.out) >= limit THEN a2
                      ELSE WbExtractPage(Tail(products), a2, limit)
             ELSE WbExtractPage(Tail(products), acc, limit)

\* What one page fetch can give the collector: the fetch raised after its
\* retries ("error"), the body is no JSON ("badjson"), the payload holds no
\* product list ("noproducts"), or a list of products.
WbPages ==
    {[kind |-> "error"], [kind |-> "badjson"], [kind |-> "noproducts"]}
    \cup {[kind |-> "products", products |-> <<p>>] : p \in WbProducts}
    \cup {[kind |-> "products", products |-> <<p, q>>] : p \in WbProducts, q \in WbProducts}

\* The collector's locals when _wb_api_collect_sync starts (lines 415-417).
WbInit == [out |-> <<>>, seen |-> {}, page |-> 1, status |-> "run", fetched |-> <<>>]

\* The while condition without the test of the item count.
WbLoopCond_nolimit(w, limit) == w.page <= WB_MAX_PAGES

\* The while condition (line 419).
WbLoopCond(w, limit) == Len(w.out) < limit /\ w.page <= WB_MAX_PAGES

\* One iteration of the while loop on the outcome of its fetch
\* (lines 420-494).  fetched records the page numbers requested.
WbPageStep(w, outcome, limit) ==
    LET f == Append(w.fetched, w.page)
    IN  IF outcome.kind \in {"error", "badjson"}
        THEN [w EXCEPT !.status = "raised", !.fetched = f]
        ELSE IF outcome.kind = "noproducts"
        THEN [w EXCEPT !.status = "returned", !.fetched = f]
        ELSE LET acc == WbExtractPage(outcome.products, [out |-> w.out, seen |-> w.seen], limit)
             IN  [w EXCEPT !.out = acc.out, !.seen = acc.seen,
                           !.page = w.page + 1, !.fetched = f]

\* Leaving the loop by its condition (lines 419, 496).
WbLoopExit(w) == [w EXCEPT !.status = "returned"]

\* _wb_api_collect_sync run on a script of fetch outcomes, one per page.
RECURSIVE WbRun(_, _, _)
WbRun(w, script, limit) ==
    IF w.status # "run" THEN w
    ELSE IF ~WbLoopCond(w, limit) \/ script = <<>> THEN WbLoopExit(w)
    ELSE WbRun(WbPageStep(w, Head(script), limit), Tail(script), limit)

\* collect_wb (lines 499-505): the list returned, [] when the collector raised.
collect_wb_result(w, limit) ==
    IF w.status = "raised" THEN <<>> ELSE Take(w.out, limit)

\* ------------------------------------------------- Ozon browser collector

OzonBase == "https://www.ozon.ru"

\* The tiles of the Ozon pages the model feeds the collector.  lnk: whether
\* the card holds a link; href: its href, abs when it starts with "http",
\* path the part before "?"; price_tag, name_tag: the text of the price and
\* name spans (None when the span is missing); lnk_text: the link's text;
\* raises: processing the card raises; img, rating, reviews: what
\* _extract_ozon_img and _extract_ozon_rating_reviews find in the card
\* (lines 510-564), "" when they find nothing.
OzonCards == {
    [lnk |-> TRUE, href |-> [abs |-> FALSE, path |-> <<"product", "7">>, query |-> "a=1"],
     price_tag |-> StrV(<<"1", " ", "2", "r">>), name_tag |-> StrV(<<"~", "a", " ">>),
     lnk_text |-> <<>>, raises |-> FALSE,
     img |-> <<"i">>, rating |-> <<"4">>, reviews |-> <<"8">>],
    [lnk |-> TRUE, href |-> [abs |-> FALSE, path |-> <<"product", "7">>, query |-> "b=2"],
     price_tag |-> StrV(<<"5">>), name_tag |-> StrV(<<"c">>),
     lnk_text |-> <<>>, raises |-> FALSE,
     img |-> <<>>, rating |-> <<>>, reviews |-> <<>>],
    [lnk |-> TRUE, href |-> [abs |-> TRUE,
                             path |-> <<"https://www.wildberries.ru", "catalog", "1", "detail.aspx">>,
                             query |-> ""],
     price_tag |-> StrV(<<"9">>), name_tag |-> None,
     lnk_text |-> <<"b">>, raises |-> FALSE,
     img |-> <<>>, rating |-> <<>>, reviews |-> <<>>],
    [lnk |-> TRUE, href |-> [abs |-> FALSE, path |-> <<"product", "8">>, query |-> ""],
     price_tag |-> StrV(<<"r">>), name_tag |-> StrV(<<"d">>),
     lnk_text |-> <<>>, raises |-> FALSE,
     img |-> <<>>, rating |-> <<>>, reviews |-> <<>>],
    [lnk |-> TRUE, href |-> [abs |-> FALSE, path |-> <<"product", "9">>, query |-> ""],
     price_tag |-> StrV(<<"3">>), name_tag |-> None,
     lnk_text |-> <<" ">>, raises |-> FALSE,
     img |-> <<>>, rating |-> <<>>, reviews |-> <<>>],
    [lnk |-> FALSE, href |-> [abs |-> FALSE, path |-> <<>>, query |-> ""],
     price_tag |-> StrV(<<"4">>), name_tag |-> StrV(<<"e">>),
     lnk_text |-> <<>>, raises |-> FALSE,
     img |-> <<>>, rating |-> <<>>, reviews |-> <<>>],
    [lnk |-> TRUE, href |-> [abs |-> FALSE, path |-> <<"product", "6">>, query |-> ""],
     price_tag |-> StrV(<<"4">>), name_tag |-> StrV(<<"e">>),
     lnk_text |-> <<>>, raises |-> TRUE,
     img |-> <<>>, rating |-> <<>>, reviews |-> <<>>] }

\* Whether the card yields an href at all (lines 575-578).
OzonHasHref(card) == card.lnk /\ (card.href.path # <<>> \/ card.href.query # "")

\* url (line 580): the href up to "?", prefixed with the site for a relative one.
OzonUrl(card) ==
    IF card.href.abs THEN card.href.path ELSE <<OzonBase>> \o card.href.path

\* price (lines 585-586)
OzonPrice(card) ==
    IF card.price_tag # None THEN digits_only(card.price_tag.s) ELSE <<>>

\* name (lines 591-596)
OzonName(card) ==
    LET n1 == IF card.name_tag # None THEN _clean_spaces(card.name_tag.s) ELSE <<>>
    IN  IF n1 = <<>> /\ card.lnk THEN _clean_spaces(card.lnk_text) ELSE n1

\* item (lines 601-609)
OzonItem(card) ==
    [marketplace |-> "ozon",
     name |-> OzonName(card),
     url |-> OzonUrl(card),
     price |-> OzonPrice(card),
     rating |-> card.rating,
     reviews |-> card.reviews,
     img_url |-> card.img]

\* _parse_ozon_html (lines 567-619): acc = [results, seen]; seen is the
\* caller's set, updated in place.
RECURSIVE OzonParseCards(_, _, _)
OzonParseCards(cards, acc, left) ==
    IF cards = <<>> THEN acc
    ELSE LET card == Head(cards)
             skip == OzonParseCards(Tail(cards), acc, left)
         IN  IF card.raises THEN skip
             ELSE IF ~OzonHasHref(card) THEN skip
             ELSE IF OzonUrl(card) = <<>> \/ OzonUrl(card) \in acc.seen THEN skip
             ELSE IF OzonPrice(card) = <<>> THEN skip
             ELSE IF valid_product_item(OzonItem(card), acc.seen)
             THEN LET a2 == [results |-> Append(acc.results, OzonItem(card)),
                             seen |-> acc.seen \cup {OzonUrl(card)}]
                  IN  IF Len(a2.results) >= left THEN a2
                      ELSE OzonParseCards(Tail(cards), a2, left)
             ELSE skip

\* The cards before the first one whose processing raises.
RECURSIVE UntilRaise(_)
UntilRaise(cards) ==
    IF cards = <<>> \/ Head(cards).raises THEN <<>>
    ELSE <<Head(cards)>> \o UntilRaise(Tail(cards))

\* _parse_ozon_html that gives up at the first card that raises.
_parse_ozon_html_abort(html, seen, left) ==
    OzonParseCards(UntilRaise(html), [results |-> <<>>, seen |-> seen], left)

\* _parse_ozon_html that forgets the caller's seen-set.
_parse_ozon_html_fresh(html, seen, left) ==
    OzonParseCards(html, [results |-> <<>>, seen |-> {}], left)

_parse_ozon_html(html, seen, left) ==
    OzonParseCards(html, [results |-> <<>>, seen |-> seen], left)

\* The collector's locals when _ozon_sync_collect starts (lines 655-656).
\* waits counts the waits for the first tile (line 667).
OzInit == [seen |-> {}, results |-> <<>>, stagnation |-> 0, rounds |-> 0,
           scrolls |-> 0, waits |-> 0, status |-> "nav"]

\* Navigation that does not look for the ban page.
OzNav_noban(o, nav) ==
    IF nav = "raise" THEN [o EXCEPT !.status = "raised"]
    ELSE IF nav = "notiles" THEN [o EXCEPT !.status = "raised", !.waits = o.waits + 1]
    ELSE [o EXCEPT !.status = "loop", !.waits = o.waits + 1]

\* Navigation and the first wait (lines 658-669).  nav: "raise" (driver.get
\* raised), "block" (ban page), "notiles" (the first wait timed out), "ok".
OzNav(o, nav) ==
    IF nav = "raise" THEN [o EXCEPT !.status = "raised"]
    ELSE IF nav = "block" THEN [o EXCEPT !.status = "returned"]
    ELSE IF nav = "notiles" THEN [o EXCEPT !.status = "raised", !.waits = o.waits + 1]
    ELSE [o EXCEPT !.status = "loop", !.waits = o.waits + 1]

\* The stagnation counter that no round increments.
OzStagnation_stuck(stagnation, grew) == IF grew THEN 0 ELSE stagnation

\* The stagnation counter after a round's scroll (lines 693-698).
OzStagnation(stagnation, grew) == IF grew THEN 0 ELSE stagnation + 1

\* One round of the scroll loop (lines 673-701).  obs: what the browser
\* shows this round: raise (a driver call raised), block (ban signature),
\* html (the tiles), grew1 (tiles grew after the scroll), click (a load-more
\* button was clicked), grew2 (tiles grew after the click).
OzRound(o, obs, limit) ==
    IF obs.raise THEN [o EXCEPT !.status = "raised"]
    ELSE IF obs.block THEN [o EXCEPT !.status = "final", !.rounds = o.rounds + 1]
    ELSE
      LET acc == _parse_ozon_html(obs.html, o.seen, limit - Len(o.results))
          res == o.results \o acc.results
          o1 == [o EXCEPT !.seen = acc.seen, !.results = res, !.rounds = o.rounds + 1]
          grew == obs.grew1 \/ (obs.click /\ obs.grew2)
          stag == OzStagnation(o.stagnation, grew)
      IN  IF acc.results # <<>> /\ Len(res) >= limit
          THEN [o1 EXCEPT !.status = "final"]
          ELSE [o1 EXCEPT !.scrolls = o.scrolls + 1,
                          !.stagnation = stag,
                          !.status = IF stag >= OZON_STAGNATION_LIMIT
                                        \/ o.rounds + 1 >= OZON_SCROLL_ROUNDS
                                     THEN "final" ELSE "loop"]

\* The final extraction pass and the return (lines 703-709).
OzFinal(o, obs, limit) ==
    IF Len(o.results) < limit
    THEN IF obs.raise THEN [o EXCEPT !.status = "raised"]
         ELSE LET acc == _parse_ozon_html(obs.html, o.seen, limit - Len(o.results))
              IN  [o EXCEPT !.seen = acc.seen,
                            !.results = o.results \o acc.results,
                            !.status = "returned"]
    ELSE [o EXCEPT !.status = "returned"]

\* The loop is entered only when range(OZON_SCROLL_ROUNDS) is not empty.
OzEnterLoop(o) ==
    IF o.status = "loop" /\ OZON_SCROLL_ROUNDS <= 0
    THEN [o EXCEPT !.status = "final"] ELSE o

\* _ozon_sync_collect run on a script: script.nav, then one observation per
\* round and one for the final pass.
RECURSIVE OzRunRounds(_, _, _)
OzRunRounds(o, obs, limit) ==
    IF o.status = "loop" /\ obs # <<>>
    THEN OzRunRounds(OzRound(o, Head(obs), limit), Tail(obs), limit)
    ELSE IF o.status = "final" /\ obs # <<>>
    THEN OzFinal(o, Head(obs), limit)
    ELSE o

OzRun(script, limit) ==
    OzRunRounds(OzEnterLoop(OzNav(OzInit, script.nav)), script.obs, limit)

\* What _ozon_sync_collect hands back (lines 665, 709).
OzResult(o, limit) == Take(o.results, limit)

\* ------------------------------------------------------------ collect_ozon

\* The blocking pause between two attempts (lines 723, 729): at least 2 s.
OZON_RETRY_SLEEP == 2

\* need_min that no yield reaches.
need_min_high(limit) == limit + 1

\* need_min (line 714)
need_min(limit) == Min(limit, OZON_MIN_ITEMS)

\* collect_ozon's position and locals inside "async with _ozon_sem", and
\* what it holds: live (browser sessions), dirs (profile directories).
\* pc "new": about to create a driver; "collect": driver created; "sleep":
\* pausing before the next attempt; "quit": in the finally clause; "done".
CoInit == [pc |-> IF OZON_RETRIES > 0 THEN "new" ELSE "done",
           attempt |-> 0, part |-> <<>>, failed |-> FALSE, exc |-> FALSE,
           next |-> "return", live |-> 0, dirs |-> 0, made |-> 0]

\* How _new_chrome_driver ends: "ok"; "nostart", webdriver.Chrome raises
\* (line 266); "late", a call made on the started browser raises (lines
\* 267-278).
DriverOutcomes == {"ok", "nostart", "late"}

\* _new_chrome_driver (line 717, lines 232-290).  The profile directory is
\* made (line 250) before the browser is started (line 266); when the
\* function raises, the exception leaves collect_ozon, which holds no
\* driver to quit.
CoNewDriver(c, how) ==
    IF how = "ok"
    THEN [c EXCEPT !.pc = "collect", !.live = c.live + 1, !.dirs = c.dirs + 1,
                   !.made = c.made + 1]
    ELSE [c EXCEPT !.pc = "done", !.exc = TRUE, !.failed = TRUE, !.part = <<>>,
                   !.dirs = c.dirs + 1,
                   !.live = IF how = "late" THEN c.live + 1 ELSE c.live]

\* The decision on the yield of an attempt whose collection ended as o
\* (lines 719-731).
CoDecide(c, o, limit) ==
    LET raised == o.status = "raised"
        items == IF raised THEN <<>> ELSE OzResult(o, limit)
        enough == ~raised /\ Len(items) >= need_min(limit)
        again == ~enough /\ c.attempt < OZON_RETRIES - 1
    IN  [c EXCEPT !.part = items, !.failed = raised,
                  !.next = IF again THEN "continue" ELSE "return",
                  !.pc = IF again THEN "sleep" ELSE "quit"]

\* One attempt's collection on a script, and the decision.
CoCollect(c, script, limit) == CoDecide(c, OzRun(script, limit), limit)

\* time.sleep returns (lines 723, 729).
CoWake(c) == [c EXCEPT !.pc = "quit"]

\* The finally clause (line 733, lines 293-300), then the next attempt or
\* the return.
CoQuit(c) ==
    IF c.next = "continue"
    THEN [c EXCEPT !.pc = "new", !.attempt = c.attempt + 1,
                   !.live = c.live - 1, !.dirs = c.dirs - 1]
    ELSE [c EXCEPT !.pc = "done", !.live = c.live - 1, !.dirs = c.dirs - 1]

\* collect_ozon run on one upstream behaviour per attempt: whether the
\* browser starts, and the script its collection meets.
RECURSIVE CoRun(_, _, _)
CoRun(c, attempts, limit) ==
    IF c.pc = "done" \/ attempts = <<>> THEN c
    ELSE LET a == Head(attempts)
             c1 == CoNewDriver(c, a.how)
             c2 == IF c1.pc = "collect" THEN CoCollect(c1, a.script, limit) ELSE c1
             c3 == IF c2.pc = "sleep" THEN CoWake(c2) ELSE c2
             c4 == IF c3.pc = "quit" THEN CoQuit(c3) ELSE c3
         IN  CoRun(c4, Tail(attempts), limit)

\* ------------------------------------------------------------ environment

\* How an environment variable is set when the process starts: not at all,
\* or to "0".  (Set to "1" it reads as unset does: "1" is every default.)
EnvValues == {"unset", "0"}

EnvNames == {"ENABLE_CACHE", "ENABLE_WB", "ENABLE_OZON", "WB_GLOBAL_COOLDOWN"}

\* The environments the orchestrator is started in (the cooldown switch
\* does not reach it).
Environments == {e \in [EnvNames -> EnvValues] : e["WB_GLOBAL_COOLDOWN"] = "unset"}

\* os.getenv(name, default)
getenv(e, name, default) == IF e[name] = "unset" THEN default ELSE e[name]

\* line 53
ENABLE_CACHE(e) == getenv(e, "ENABLE_CACHE", "1") = "0"

\* ENABLE_WB that no setting turns off.
ENABLE_WB_on(e) == TRUE

\* line 56
ENABLE_WB(e) == getenv(e, "ENABLE_WB", "1") = "1"

\* line 57
ENABLE_OZON(e) == getenv(e, "ENABLE_OZON", "1") = "1"

\* line 100
WB_GLOBAL_COOLDOWN(e) == getenv(e, "WB_GLOBAL_COOLDOWN", "1") = "1"

\* ------------------------------------------------------------------ state

VARIABLES
    env,            \* the process environment the flags are read from
    now,            \* the clock (time.time(), datetime.now())
    _cache,         \* _cache: key -> None or [data, ts]
    req,            \* the get_products calls: request id -> its position and locals
    served,         \* history: key -> the last payload an aggregation built, and when
    wbc,            \* one run of _wb_api_collect_sync: its locals
    wb_limit,       \* that run's limit argument
    wb_log,         \* history of that run: the outcome of each page fetch
    _wb_last_request_ts,  \* _wb_last_request_ts
    _wb_blocked_until,    \* _wb_blocked_until
    _wb_rate_lock,        \* the threads that hold _wb_rate_lock: one or none
    caller,         \* the calls of _wb_urlopen_with_retry: thread -> position and locals
    rh,             \* history of the rate limiter: stamps and sends
    co,             \* one call of collect_ozon: position, locals, what it holds
    ozc,            \* the locals of its current _ozon_sync_collect
    oz_limit,       \* the limit it was called with
    _ozon_sem,      \* the free permits of _ozon_sem
    oz_log,          \* history of that call: yields and growth
    task,           \* the calls of collect_ozon on the event loop: call -> position and locals
    loop,           \* the call whose blocking sleep holds the event loop thread, 0 when none does
    other,          \* the other tasks of the event loop: task -> parity of the steps it made
    batch,          \* one batch of entries handed to an extractor, with its cap
    emitted,        \* what the extractor emitted for the batch, and for its well-formed entries
    cfg,            \* the loop bounds the process was started with
    agg,            \* one aggregation under cfg: the positions and counters of its two collectors
    users,          \* auth: the users table, email -> None or the row
    refresh_tokens, \* auth: the refresh_tokens table, a set of rows
    reset_tokens,   \* auth: the password_reset_tokens table, a set of rows
    issued,         \* auth: how many tokens uuid4 and token_urlsafe have produced
    ah              \* auth: the last response, and history of the tokens

aggVars == <<env, _cache, req, served>>
wbVars == <<wbc, wb_limit, wb_log>>
rateVars == <<_wb_last_request_ts, _wb_blocked_until, _wb_rate_lock, caller, rh>>
ozVars == <<co, ozc, oz_limit, _ozon_sem, oz_log>>
loopVars == <<task, loop, other>>
extVars == <<batch, emitted>>
bndVars == <<cfg, agg>>
authVars == <<users, refresh_tokens, reset_tokens, issued, ah>>
vars == <<env, now, _cache, req, served, wbc, wb_limit, wb_log,
          _wb_last_request_ts, _wb_blocked_until, _wb_rate_lock, caller, rh,
          co, ozc, oz_limit, _ozon_sem, oz_log, task, loop, other, batch, emitted,
          cfg, agg, users, refresh_tokens, reset_tokens, issued, ah>>

\* The get_products calls in flight.
ReqIds == {"r1", "r2"}

\* The q parameters clients send.
RawQueries == {<<"a">>, <<" ", "a", " ">>, <<" ">>}

\* The cache keys of those queries: f"products:{q}" for the stripped q.
Keys == {strip(q) : q \in RawQueries} \ {<<>>}

\* ------------------------------------------------------------------ cache

\* get_from_cache with <= for < at line 156.
get_from_cache_le(e, cache, key, t) ==
    IF ~ENABLE_CACHE(e) THEN [data |-> None, cache |-> cache]
    ELSE IF cache[key] = None THEN [data |-> None, cache |-> cache]
    ELSE IF t - cache[key].ts <= CACHE_TTL
    THEN [data |-> cache[key].data, cache |-> cache]
    ELSE [data |-> None, cache |-> [cache EXCEPT ![key] = None]]

\* get_from_cache (lines 149-159): the data returned and the cache it leaves.
get_from_cache(e, cache, key, t) ==
    IF ~ENABLE_CACHE(e) THEN [data |-> None, cache |-> cache]
    ELSE IF cache[key] = None THEN [data |-> None, cache |-> cache]
    ELSE IF t - cache[key].ts < CACHE_TTL
    THEN [data |-> cache[key].data, cache |-> cache]
    ELSE [data |-> None, cache |-> [cache EXCEPT ![key] = None]]

\* set_to_cache (lines 162-165)
set_to_cache(e, cache, key, data, t) ==
    IF ~ENABLE_CACHE(e) THEN cache
    ELSE [cache EXCEPT ![key] = [data |-> data, ts |-> t]]

\* ------------------------------------------------ WB rate limiter and retry

\* The threads that run _wb_urlopen_with_retry at once: those the
\* semaphore of collect_wb admits (line 500).
Callers == 1..WB_CONCURRENT_LIMIT

RECURSIVE Pow(_, _)
Pow(b, n) == IF n = 0 THEN 1 ELSE b * Pow(b, n - 1)

\* random.uniform(0.2, 0.9) on the clock's scale: less than one tick.
Jitter == {0, 1}

\* The Retry-After headers of the 429 responses: none, one float() cannot
\* parse, and numbers.
RetryAfter == {None, StrV(<<"x">>), IntV(1), IntV(-1)}

\* The backoff delay (lines 354, 359, 365, 370).
BackoffDelay(attempt, j) == Min(WB_BACKOFF_MAX, Pow(WB_BACKOFF_BASE, attempt + 1) + j)

\* The delay after a 429 (lines 346-354): the hint when float() parses it.
ThrottleDelay(ra, attempt, j) ==
    IF ra.t = "int" THEN ra.v ELSE BackoffDelay(attempt, j)

\* _wb_set_block that stores the new end without comparing.
_wb_set_block_overwrite(e, blocked, seconds, t) ==
    IF ~WB_GLOBAL_COOLDOWN(e) THEN blocked ELSE t + Max(0, seconds)

\* _wb_set_block (lines 305-312): the new value of _wb_blocked_until.
_wb_set_block(e, blocked, seconds, t) ==
    IF ~WB_GLOBAL_COOLDOWN(e) THEN blocked
    ELSE IF t + Max(0, seconds) > blocked THEN t + Max(0, seconds) ELSE blocked

\* _wb_wait_if_blocked that never waits.
BlockedWait_never(e, blocked, t) == 0

\* _wb_wait_if_blocked (lines 315-322): how long the caller sleeps.
BlockedWait(e, blocked, t) ==
    IF WB_GLOBAL_COOLDOWN(e) /\ blocked > t THEN blocked - t ELSE 0

\* The pacing wait without the interval.
RateWait_none(last, t) == 0

\* wait (line 330)
RateWait(last, t) == WB_MIN_INTERVAL - (t - last)

\* The process has run for at least WB_MIN_INTERVAL when the first call
\* comes: the clock starts there, the two timestamps at 0.0 (lines 123, 126).
Epoch == WB_MIN_INTERVAL

\* How the attempt before ended: not throttled, throttled without a usable
\* Retry-After, or throttled with the hint v.
NotThrottled == [k |-> "none", v |-> 0]
Throttled(ra) == IF ra.t = "int" THEN [k |-> "hint", v |-> ra.v] ELSE [k |-> "nohint", v |-> 0]

\* A thread outside _wb_urlopen_with_retry.  Of a call: pc its position,
\* attempt the loop variable, wake the end of its sleep; history: floor the
\* cooldown in force when it was issued, sent the time of its last
\* request, thr how that request ended.
CallerInit == [pc |-> "idle", attempt |-> 0, wake |-> 0, floor |-> 0,
               sent |-> 0, thr |-> NotThrottled]

RateInit ==
    /\ _wb_last_request_ts = 0
    /\ _wb_blocked_until = 0
    /\ _wb_rate_lock = {}
    /\ caller = [c \in Callers |-> CallerInit]
    /\ rh = [last_send |-> 0, sends |-> 0, first_stamp |-> 0, stamps |-> 0,
             issue |-> "none", kept |-> FALSE]

\* collect_ozon before "async with _ozon_sem" (line 713).
CoWaiting == [CoInit EXCEPT !.pc = "wait"]

\* No call of collect_ozon, every permit free (line 119).
OzonIdle ==
    /\ co = CoWaiting
    /\ ozc = OzInit
    /\ oz_limit = 0
    /\ _ozon_sem = OZON_BROWSER_LIMIT
    /\ oz_log = [best |-> 0, grown |-> FALSE, grew |-> FALSE, blocked |-> "no"]

\* The collect_ozon calls the event loop runs at once: one per request.
NumRequests == 2
Invs == 1..NumRequests

\* The other tasks of the event loop: the WB branch of a request
\* (line 502) and the liveness probe (lines 804-806).
OtherTasks == {"wb", "probe"}

\* No call of collect_ozon has reached the semaphore, nothing blocks the
\* event loop.
LoopIdle ==
    /\ task = [i \in Invs |-> CoWaiting]
    /\ loop = 0
    /\ other = [o \in OtherTasks |-> 0]

\* No batch is being extracted.
ExtractIdle ==
    /\ batch = [src |-> "none", entries |-> <<>>, cap |-> 0]
    /\ emitted = [full |-> <<>>, clean |-> <<>>, did |-> {}]

\* The loop bounds as the model's other specifications fix them.
CfgModel ==
    [WB_MAX_RETRIES |-> WB_MAX_RETRIES, WB_MAX_PAGES |-> WB_MAX_PAGES,
     OZON_SCROLL_ROUNDS |-> OZON_SCROLL_ROUNDS, OZON_RETRIES |-> OZON_RETRIES]

\* An aggregation whose two collectors have just been called.  wb: pages
\* the fetches begun, attempts those of the current fetch; oz: attempts the
\* drivers asked for, rounds those of the current scroll run; result what
\* the collector gave gather: "none" (not yet), "list", "None", "raised".
AggStart ==
    [wb |-> [pc |-> "loop", pages |-> 0, attempts |-> 0, result |-> "none"],
     oz |-> [pc |-> "start", attempts |-> 0, rounds |-> 0, result |-> "none"],
     resp |-> 0]

BoundsIdle ==
    /\ cfg = CfgModel
    /\ agg = AggStart

\* The e-mail addresses and passwords of the auth service's clients.
Emails == {"a", "b"}
Passwords == {"p", "q"}

\* No request has been served; the tables are empty (lines 45-69 of the
\* auth service).
NoResponse == [op |-> "none", status |-> 0, tok |-> 0, pw |-> ""]

AuthInit ==
    /\ users = [e \in Emails |-> None]
    /\ refresh_tokens = {}
    /\ reset_tokens = {}
    /\ issued = 0
    /\ ah = [last |-> NoResponse, spent |-> {}, revoked |-> {}, reset_done |-> {}]

\* ----------------------------------------------------------- orchestrator

\* The upstream behaviours the orchestrator's collectors meet: for WB one
\* fetch outcome per page, for Ozon one behaviour per attempt.
WbPageErr == [kind |-> "error"]
WbPageNone == [kind |-> "noproducts"]
WbPageA == [kind |-> "products", products |-> <<
    [id |-> "1", name |-> <<"n">>, sizes_product |-> IntV(15000), priceU |-> None, salePriceU |-> None,
     rating |-> IntV(5), feedbacks |-> IntV(7), img |-> StrV(<<"h">>)],
    [id |-> "1", name |-> <<"m">>, sizes_product |-> None, priceU |-> IntV(20000), salePriceU |-> None,
     rating |-> None, feedbacks |-> None, img |-> None],
    [id |-> "4", name |-> <<"k">>, sizes_product |-> StrV(<<"x">>), priceU |-> None, salePriceU |-> None,
     rating |-> None, feedbacks |-> None, img |-> None],
    [id |-> "2", name |-> <<" ">>, sizes_product |-> None, priceU |-> None, salePriceU |-> IntV(99),
     rating |-> None, feedbacks |-> None, img |-> None]>>]
WbPageB == [kind |-> "products", products |-> <<
    [id |-> "5", name |-> <<"k">>, sizes_product |-> None, priceU |-> IntV(0), salePriceU |-> IntV(1234),
     rating |-> None, feedbacks |-> None, img |-> None]>>]

WbPageC == [kind |-> "products", products |-> <<
    [id |-> "1", name |-> <<"m">>, sizes_product |-> None, priceU |-> IntV(20000), salePriceU |-> None,
     rating |-> None, feedbacks |-> None, img |-> None]>>]

AggWbScripts == {
    <<WbPageErr>>,
    <<WbPageA, WbPageErr>>,
    <<WbPageNone>>,
    <<WbPageA, WbPageB>>,
    <<WbPageC, WbPageNone>> }

OzCardRel7 ==
    [lnk |-> TRUE, href |-> [abs |-> FALSE, path |-> <<"product", "7">>, query |-> "a=1"],
     price_tag |-> StrV(<<"1", " ", "2", "r">>), name_tag |-> StrV(<<"~", "a", " ">>),
     lnk_text |-> <<>>, raises |-> FALSE,
     img |-> <<"i">>, rating |-> <<"4">>, reviews |-> <<"8">>]
OzCardRel7b ==
    [lnk |-> TRUE, href |-> [abs |-> FALSE, path |-> <<"product", "7">>, query |-> "b=2"],
     price_tag |-> StrV(<<"5">>), name_tag |-> StrV(<<"c">>),
     lnk_text |-> <<>>, raises |-> FALSE,
     img |-> <<>>, rating |-> <<>>, reviews |-> <<>>]
OzCardAbs ==
    [lnk |-> TRUE, href |-> [abs |-> TRUE,
                             path |-> <<"https://www.wildberries.ru", "catalog", "1", "detail.aspx">>,
                             query |-> ""],
     price_tag |-> StrV(<<"9">>), name_tag |-> None,
     lnk_text |-> <<"b">>, raises |-> FALSE,
     img |-> <<>>, rating |-> <<>>, reviews |-> <<>>]
OzCardNoPrice ==
    [lnk |-> TRUE, href |-> [abs |-> FALSE, path |-> <<"product", "8">>, query |-> ""],
     price_tag |-> StrV(<<"r">>), name_tag |-> StrV(<<"d">>),
     lnk_text |-> <<>>, raises |-> FALSE,
     img |-> <<>>, rating |-> <<>>, reviews |-> <<>>]

OzObs(html, grew) ==
    [raise |-> FALSE, block |-> FALSE, html |-> html, grew1 |-> grew,
     click |-> FALSE, grew2 |-> FALSE]
OzObsRaise ==
    [raise |-> TRUE, block |-> FALSE, html |-> <<>>, grew1 |-> FALSE,
     click |-> FALSE, grew2 |-> FALSE]

OzScriptRaise == [nav |-> "ok", obs |-> <<OzObs(<<OzCardRel7>>, TRUE), OzObsRaise>>]
OzScriptBlock == [nav |-> "block", obs |-> <<>>]
OzScriptEmpty ==
    [nav |-> "ok", obs |-> <<OzObs(<<OzCardNoPrice>>, FALSE), OzObs(<<OzCardNoPrice>>, FALSE),
                             OzObs(<<OzCardNoPrice>>, FALSE)>>]
OzScriptOne ==
    [nav |-> "ok", obs |-> <<OzObs(<<OzCardRel7, OzCardRel7b>>, FALSE),
                             OzObs(<<OzCardRel7b, OzCardRel7>>, FALSE),
                             OzObs(<<OzCardRel7b>>, FALSE)>>]
OzScriptTwo ==
    [nav |-> "ok", obs |-> <<OzObs(<<OzCardAbs>>, TRUE),
                             OzObs(<<OzCardAbs, OzCardRel7, OzCardRel7b>>, FALSE)>>]

AggOzAttempts == {
    <<[how |-> "nostart", script |-> OzScriptBlock]>>,
    <<[how |-> "ok", script |-> OzScriptRaise], [how |-> "ok", script |-> OzScriptRaise]>>,
    <<[how |-> "ok", script |-> OzScriptEmpty], [how |-> "ok", script |-> OzScriptEmpty]>>,
    <<[how |-> "ok", script |-> OzScriptBlock], [how |-> "ok", script |-> OzScriptOne]>>,
    <<[how |-> "ok", script |-> OzScriptTwo]>> }

\* A branch of the gather: "off" (source disabled), "run", "done".
\* failed: the collector raised (collect_wb swallows it, line 503); exc: the
\* exception left the branch and is what gather returns for it.
NoBranch == [pc |-> "off", part |-> <<>>, failed |-> FALSE, exc |-> FALSE]

ReqInit == [pc |-> "idle", key |-> <<>>, wb |-> NoBranch, oz |-> NoBranch, resp |-> None]

Tick ==
    /\ now < MaxTime
    /\ now' = now + 1
    /\ UNCHANGED <<env, _cache, req, served>>
    /\ UNCHANGED <<wbVars, rateVars, ozVars, loopVars, extVars, bndVars, authVars>>

\* The payload of lines 795-799.
Payload(q, items) == [query |-> q, count |-> Len(items), items |-> items]

\* What the caller gets: the HTTP status, the payload, and whether it came
\* from the cache (line 770) or from a harvest (line 801).
Response(status, payload, cached) ==
    [status |-> status, payload |-> payload, cached |-> cached]

\* get_products up to the gather (lines 762-782).
Lookup(r, raw) ==
    /\ req[r].pc = "idle"
    /\ LET q == strip(raw)
           got == get_from_cache(env, _cache, q, now)
       IN  IF q = <<>>
           THEN /\ req' = [req EXCEPT ![r].pc = "done",
                                      ![r].resp = Response(400, None, FALSE)]
                /\ UNCHANGED _cache
           ELSE /\ _cache' = got.cache
                /\ IF got.data # None
                   THEN req' = [req EXCEPT ![r].pc = "done", ![r].key = q,
                                           ![r].resp = Response(200, got.data, TRUE)]
                   ELSE IF ~ENABLE_WB(env) /\ ~ENABLE_OZON(env)
                   THEN req' = [req EXCEPT ![r].pc = "done", ![r].key = q,
                                           ![r].resp = Response(500, None, FALSE)]
                   ELSE req' = [req EXCEPT ![r].pc = "gather", ![r].key = q,
                                           ![r].wb.pc = IF ENABLE_WB(env) THEN "run" ELSE "off",
                                           ![r].oz.pc = IF ENABLE_OZON(env) THEN "run" ELSE "off"]
    /\ UNCHANGED <<env, now, served>>
    /\ UNCHANGED <<wbVars, rateVars, ozVars, loopVars, extVars, bndVars, authVars>>

\* The runs of the two collectors on those behaviours.
AggWbRuns == {WbRun(WbInit, script, WB_ITEMS) : script \in AggWbScripts}
AggOzRuns == {CoRun(CoInit, attempts, OZON_ITEMS) : attempts \in AggOzAttempts}

\* The collect_wb branch (lines 499-505): the collector has run as w.
WbBranch(r, w) ==
    /\ req[r].wb.pc = "run"
    /\ w.status # "run"
    /\ req' = [req EXCEPT ![r].wb.pc = "done",
                          ![r].wb.part = collect_wb_result(w, WB_ITEMS),
                          ![r].wb.failed = (w.status = "raised")]
    /\ UNCHANGED <<env, now, _cache, served>>
    /\ UNCHANGED <<wbVars, rateVars, ozVars, loopVars, extVars, bndVars, authVars>>

\* The collect_ozon branch (lines 712-733): collect_ozon has run as c.
OzonBranch(r, c) ==
    /\ req[r].oz.pc = "run"
    /\ c.pc = "done"
    /\ req' = [req EXCEPT ![r].oz.pc = "done",
                          ![r].oz.part = c.part,
                          ![r].oz.failed = c.failed,
                          ![r].oz.exc = c.exc]
    /\ UNCHANGED <<env, now, _cache, served>>
    /\ UNCHANGED <<wbVars, rateVars, ozVars, loopVars, extVars, bndVars, authVars>>

\* The parts in the order the collectors might finish, Ozon first.
GatheredItems_ozfirst(q) ==
    (IF q.oz.pc = "done" /\ ~q.oz.exc THEN q.oz.part ELSE <<>>)
    \o (IF q.wb.pc = "done" /\ ~q.wb.exc THEN q.wb.part ELSE <<>>)

\* The parts asyncio.gather returns, in task order (lines 772-782), with an
\* exception's part contributing nothing (lines 785-789).
GatheredItems(q) ==
    (IF q.wb.pc = "done" /\ ~q.wb.exc THEN q.wb.part ELSE <<>>)
    \o (IF q.oz.pc = "done" /\ ~q.oz.exc THEN q.oz.part ELSE <<>>)

\* final_items without the cap of line 791.
final_items_nocap(q) == GatheredItems(q)

\* final_items (line 791)
final_items(q) == Take(GatheredItems(q), MAX_ITEMS)

\* get_products after the gather (lines 784-801).
Finish(r) ==
    /\ req[r].pc = "gather"
    /\ req[r].wb.pc \in {"off", "done"}
    /\ req[r].oz.pc \in {"off", "done"}
    /\ LET payload == Payload(req[r].key, final_items(req[r]))
       IN  /\ _cache' = set_to_cache(env, _cache, req[r].key, payload, now)
           /\ served' = [served EXCEPT ![req[r].key] = [data |-> payload, ts |-> now]]
           /\ req' = [req EXCEPT ![r].pc = "done",
                                 ![r].resp = Response(200, payload, FALSE)]
    /\ UNCHANGED <<env, now>>
    /\ UNCHANGED <<wbVars, rateVars, ozVars, loopVars, extVars, bndVars, authVars>>

\* The response is sent and the call is over; its slot takes the next call.
Respond(r) ==
    /\ req[r].pc = "done"
    /\ req' = [req EXCEPT ![r] = ReqInit]
    /\ UNCHANGED <<env, now, _cache, served>>
    /\ UNCHANGED <<wbVars, rateVars, ozVars, loopVars, extVars, bndVars, authVars>>

Init ==
    /\ env \in Environments
    /\ now = 0
    /\ _cache = [k \in Keys |-> None]
    /\ req = [r \in ReqIds |-> ReqInit]
    /\ served = [k \in Keys |-> None]
    /\ wbc = WbInit
    /\ wb_limit = 0
    /\ wb_log = <<>>
    /\ RateInit
    /\ OzonIdle
    /\ LoopIdle
    /\ ExtractIdle
    /\ BoundsIdle
    /\ AuthInit

Next ==
    \/ Tick
    \/ \E r \in ReqIds, raw \in RawQueries : Lookup(r, raw)
    \/ \E r \in ReqIds, w \in AggWbRuns : WbBranch(r, w)
    \/ \E r \in ReqIds, c \in AggOzRuns : OzonBranch(r, c)
    \/ \E r \in ReqIds : Finish(r)
    \/ \E r \in ReqIds : Respond(r)

Spec == Init /\ [][Next]_vars

\* ---------------------------------------- one run of _wb_api_collect_sync

\* The limits the collector is run with.
MaxLimit == 3

\* The next iteration of the while loop: page wbc.page is fetched and
\* handled (lines 419-494).
WbFetchPage(outcome) ==
    /\ wbc.status = "run"
    /\ WbLoopCond(wbc, wb_limit)
    /\ wbc' = WbPageStep(wbc, outcome, wb_limit)
    /\ wb_log' = Append(wb_log, [kind |-> outcome.kind, had |-> wbc.out])
    /\ UNCHANGED wb_limit
    /\ UNCHANGED <<now, aggVars, loopVars, extVars, bndVars, authVars, rateVars, ozVars>>

\* The while condition fails and the collector returns (lines 419, 496).
WbReturn ==
    /\ wbc.status = "run"
    /\ ~WbLoopCond(wbc, wb_limit)
    /\ wbc' = WbLoopExit(wbc)
    /\ UNCHANGED <<wb_limit, wb_log>>
    /\ UNCHANGED <<now, aggVars, loopVars, extVars, bndVars, authVars, rateVars, ozVars>>

InitWB ==
    /\ env = [n \in EnvNames |-> "unset"]
    /\ now = 0
    /\ _cache = [k \in Keys |-> None]
    /\ req = [r \in ReqIds |-> ReqInit]
    /\ served = [k \in Keys |-> None]
    /\ wbc = WbInit
    /\ wb_limit \in 0..MaxLimit
    /\ wb_log = <<>>
    /\ RateInit
    /\ OzonIdle
    /\ LoopIdle
    /\ ExtractIdle
    /\ BoundsIdle
    /\ AuthInit

NextWB ==
    \/ \E outcome \in WbPages : WbFetchPage(outcome)
    \/ WbReturn

SpecWB == InitWB /\ [][NextWB]_vars

\* ------------------------------------------- the calls of the rate limiter

RateTick ==
    /\ now < MaxRateTime
    /\ now' = now + 1
    /\ rh' = [rh EXCEPT !.issue = IF @ = "now" THEN "same" ELSE @]
    /\ UNCHANGED <<aggVars, loopVars, extVars, bndVars, authVars, wbVars, ozVars, _wb_last_request_ts, _wb_blocked_until,
                   _wb_rate_lock, caller>>

\* The head of an attempt (lines 338-339): _wb_wait_if_blocked reads
\* _wb_blocked_until and either sleeps or goes on to the rate lock.
AttemptHead(cr) ==
    LET w == BlockedWait(env, _wb_blocked_until, now)
    IN  [cr EXCEPT !.pc = IF w > 0 THEN "blocked" ELSE "lock",
                   !.wake = IF w > 0 THEN now + w ELSE 0]

\* A thread calls _wb_urlopen_with_retry (line 336) and reaches the head
\* of attempt 0.  rh.issue tells whether the calls so far were all issued
\* at the same time.
Call(c) ==
    /\ caller[c].pc = "idle"
    /\ caller' = [caller EXCEPT ![c] =
           AttemptHead([caller[c] EXCEPT !.attempt = 0,
                                         !.floor = Max(_wb_blocked_until, now)])]
    /\ rh' = [rh EXCEPT !.issue = IF @ \in {"none", "now"} THEN "now" ELSE "apart"]
    /\ UNCHANGED <<now, aggVars, loopVars, extVars, bndVars, authVars, wbVars, ozVars, _wb_last_request_ts, _wb_blocked_until,
                   _wb_rate_lock>>

\* time.sleep(until - now) returns (line 322).
BlockedWake(c) ==
    /\ caller[c].pc = "blocked"
    /\ now >= caller[c].wake
    /\ caller' = [caller EXCEPT ![c].pc = "lock", ![c].wake = 0]
    /\ UNCHANGED <<now, aggVars, loopVars, extVars, bndVars, authVars, wbVars, ozVars, _wb_last_request_ts, _wb_blocked_until,
                   _wb_rate_lock, rh>>

\* The stamp and the release of the lock (line 333).
Stamped(c) ==
    /\ _wb_last_request_ts' = now
    /\ _wb_rate_lock' = {}
    /\ caller' = [caller EXCEPT ![c].pc = "send", ![c].wake = 0]
    /\ rh' = [rh EXCEPT !.stamps = rh.stamps + 1,
                        !.first_stamp = IF rh.stamps = 0 THEN now ELSE rh.first_stamp]

\* The caller takes _wb_rate_lock and computes its wait (lines 328-333):
\* with nothing to wait for it stamps and releases the lock at once.
RateLock(c) ==
    /\ caller[c].pc = "lock"
    /\ _wb_rate_lock = {}
    /\ LET w == RateWait(_wb_last_request_ts, now)
       IN  IF w > 0
           THEN /\ _wb_rate_lock' = {c}
                /\ caller' = [caller EXCEPT ![c].pc = "pace", ![c].wake = now + w]
                /\ UNCHANGED <<_wb_last_request_ts, rh>>
           ELSE Stamped(c)
    /\ UNCHANGED <<now, aggVars, loopVars, extVars, bndVars, authVars, wbVars, ozVars, _wb_blocked_until>>

\* time.sleep(wait) returns, the lock still held, and the caller stamps
\* (lines 332-333).
PaceWake(c) ==
    /\ caller[c].pc = "pace"
    /\ now >= caller[c].wake
    /\ Stamped(c)
    /\ UNCHANGED <<now, aggVars, loopVars, extVars, bndVars, authVars, wbVars, ozVars, _wb_blocked_until>>

\* urlopen sends the request (line 341).
Send(c) ==
    /\ caller[c].pc = "send"
    /\ caller' = [caller EXCEPT ![c].pc = "await", ![c].sent = now, ![c].floor = 0]
    /\ rh' = [rh EXCEPT !.sends = Min(rh.sends + 1, 2), !.last_send = now]
    /\ UNCHANGED <<now, aggVars, loopVars, extVars, bndVars, authVars, wbVars, ozVars, _wb_last_request_ts, _wb_blocked_until,
                   _wb_rate_lock>>

\* The call is over: its locals are gone.
CallOver(outcome) == [CallerInit EXCEPT !.pc = outcome]

\* The response is read and the call returns (line 342).
RespondOk(c) ==
    /\ caller[c].pc = "await"
    /\ caller' = [caller EXCEPT ![c] = CallOver("returned")]
    /\ UNCHANGED <<now, aggVars, loopVars, extVars, bndVars, authVars, wbVars, ozVars, _wb_last_request_ts, _wb_blocked_until,
                   _wb_rate_lock, rh>>

\* A 429 (lines 343-358): the delay, the cooldown, the sleep.  time.sleep
\* raises ValueError for a negative delay, and the exception leaves the call.
\* rh.kept tells whether some 429 declared an end earlier than the one in
\* effect.
Respond429(c, ra, j) ==
    /\ caller[c].pc = "await"
    /\ LET delay == ThrottleDelay(ra, caller[c].attempt, j)
       IN  /\ _wb_blocked_until' = _wb_set_block(env, _wb_blocked_until, delay, now)
           /\ caller' = [caller EXCEPT ![c] =
                  IF delay < 0 THEN CallOver("raised")
                  ELSE [@ EXCEPT !.pc = "backoff", !.wake = now + delay,
                                 !.thr = Throttled(ra)]]
           /\ rh' = [rh EXCEPT !.kept = \/ @
                                        \/ /\ WB_GLOBAL_COOLDOWN(env)
                                           /\ now + Max(0, delay) < _wb_blocked_until]
    /\ UNCHANGED <<now, aggVars, loopVars, extVars, bndVars, authVars, wbVars, ozVars, _wb_last_request_ts, _wb_rate_lock>>

\* Another HTTP error, a URLError or timeout, or any other exception
\* (lines 359-372): the backoff sleep, no cooldown.
RespondError(c, j) ==
    /\ caller[c].pc = "await"
    /\ caller' = [caller EXCEPT ![c].pc = "backoff",
                                ![c].wake = now + BackoffDelay(caller[c].attempt, j),
                                ![c].thr = NotThrottled]
    /\ UNCHANGED <<now, aggVars, loopVars, extVars, bndVars, authVars, wbVars, ozVars, _wb_last_request_ts, _wb_blocked_until,
                   _wb_rate_lock, rh>>

\* time.sleep(delay) returns (lines 357-372): the next attempt begins, or
\* the loop is over and the call ends with raise last_exc (line 373).
BackoffWake(c) ==
    /\ caller[c].pc = "backoff"
    /\ now >= caller[c].wake
    /\ caller' = [caller EXCEPT ![c] =
           IF caller[c].attempt + 1 < WB_MAX_RETRIES
           THEN AttemptHead([@ EXCEPT !.attempt = caller[c].attempt + 1])
           ELSE CallOver("raised")]
    /\ UNCHANGED <<now, aggVars, loopVars, extVars, bndVars, authVars, wbVars, ozVars, _wb_last_request_ts, _wb_blocked_until,
                   _wb_rate_lock, rh>>

InitRate ==
    /\ env \in {e \in [EnvNames -> EnvValues] :
                  \A n \in EnvNames \ {"WB_GLOBAL_COOLDOWN"} : e[n] = "unset"}
    /\ now = Epoch
    /\ _cache = [k \in Keys |-> None]
    /\ req = [r \in ReqIds |-> ReqInit]
    /\ served = [k \in Keys |-> None]
    /\ wbc = WbInit
    /\ wb_limit = 0
    /\ wb_log = <<>>
    /\ RateInit
    /\ OzonIdle
    /\ LoopIdle
    /\ ExtractIdle
    /\ BoundsIdle
    /\ AuthInit

NextRate ==
    \/ RateTick
    \/ \E c \in Callers : Call(c)
    \/ \E c \in Callers : BlockedWake(c)
    \/ \E c \in Callers : RateLock(c)
    \/ \E c \in Callers : PaceWake(c)
    \/ \E c \in Callers : Send(c)
    \/ \E c \in Callers : RespondOk(c)
    \/ \E c \in Callers, ra \in RetryAfter, j \in Jitter : Respond429(c, ra, j)
    \/ \E c \in Callers, j \in Jitter : RespondError(c, j)
    \/ \E c \in Callers : BackoffWake(c)

SpecRate == InitRate /\ [][NextRate]_vars

\* ---------------------------------------------------- one call of collect_ozon

OzCardAbs7 ==
    [lnk |-> TRUE, href |-> [abs |-> TRUE, path |-> <<OzonBase, "product", "7">>, query |-> ""],
     price_tag |-> StrV(<<"6">>), name_tag |-> StrV(<<"f">>),
     lnk_text |-> <<>>, raises |-> FALSE,
     img |-> <<>>, rating |-> <<>>, reviews |-> <<>>]
OzCardRel9 ==
    [lnk |-> TRUE, href |-> [abs |-> FALSE, path |-> <<"product", "9">>, query |-> ""],
     price_tag |-> StrV(<<"3">>), name_tag |-> StrV(<<"g">>),
     lnk_text |-> <<>>, raises |-> FALSE,
     img |-> <<>>, rating |-> <<>>, reviews |-> <<>>]

\* The page sources the browser shows.
OzHtmls == {
    <<>>,
    <<OzCardNoPrice>>,
    <<OzCardRel7>>,
    <<OzCardRel7b, OzCardAbs7, OzCardRel9>>,
    <<OzCardAbs, OzCardRel7>> }

\* What the browser shows in one round or in the final pass.
OzObservations ==
    {OzObsRaise}
    \cup {[OzObsRaise EXCEPT !.raise = FALSE, !.block = TRUE]}
    \cup [raise : {FALSE}, block : {FALSE}, html : OzHtmls, grew1 : BOOLEAN,
          click : BOOLEAN, grew2 : BOOLEAN]

\* Whether the tiles grew in the round (lines 688-691).
OzGrew(obs) == obs.grew1 \/ (obs.click /\ obs.grew2)

\* collect_ozon takes a permit (line 713).
OzEnter ==
    /\ co.pc = "wait"
    /\ _ozon_sem > 0
    /\ _ozon_sem' = _ozon_sem - 1
    /\ co' = CoInit
    /\ UNCHANGED <<ozc, oz_limit, oz_log>>
    /\ UNCHANGED <<now, aggVars, loopVars, extVars, bndVars, authVars, wbVars, rateVars>>

\* The attempt's driver (line 717) and, on it, the call of
\* _ozon_sync_collect with its fresh locals (lines 719, 655-656).
OzNewDriver(how) ==
    /\ co.pc = "new"
    /\ co' = CoNewDriver(co, how)
    /\ ozc' = OzInit
    /\ oz_log' = [oz_log EXCEPT !.grown = FALSE, !.grew = FALSE, !.blocked = "no"]
    /\ UNCHANGED <<oz_limit, _ozon_sem>>
    /\ UNCHANGED <<now, aggVars, loopVars, extVars, bndVars, authVars, wbVars, rateVars>>

\* Navigation and the first wait (lines 658-669).
OzNavigate(nav) ==
    /\ co.pc = "collect"
    /\ ozc.status = "nav"
    /\ ozc' = OzEnterLoop(OzNav(ozc, nav))
    /\ oz_log' = [oz_log EXCEPT !.blocked = IF nav = "block" THEN "nav" ELSE @]
    /\ UNCHANGED <<co, oz_limit, _ozon_sem>>
    /\ UNCHANGED <<now, aggVars, loopVars, extVars, bndVars, authVars, wbVars, rateVars>>

\* One round of the scroll loop (lines 673-701).
OzScrollRound(obs) ==
    /\ co.pc = "collect"
    /\ ozc.status = "loop"
    /\ ozc' = OzRound(ozc, obs, oz_limit)
    /\ oz_log' = [oz_log EXCEPT
           !.blocked = IF ~obs.raise /\ obs.block THEN "round" ELSE @,
           !.grew = ozc'.scrolls > ozc.scrolls /\ OzGrew(obs),
           !.grown = @ \/ (ozc'.scrolls > ozc.scrolls /\ OzGrew(obs))]
    /\ UNCHANGED <<co, oz_limit, _ozon_sem>>
    /\ UNCHANGED <<now, aggVars, loopVars, extVars, bndVars, authVars, wbVars, rateVars>>

\* The final extraction pass and the return (lines 703-709).
OzFinalPass(obs) ==
    /\ co.pc = "collect"
    /\ ozc.status = "final"
    /\ ozc' = OzFinal(ozc, obs, oz_limit)
    /\ UNCHANGED <<co, oz_limit, _ozon_sem, oz_log>>
    /\ UNCHANGED <<now, aggVars, loopVars, extVars, bndVars, authVars, wbVars, rateVars>>

\* _ozon_sync_collect is over: the decision on its yield (lines 719-731).
OzDecide ==
    /\ co.pc = "collect"
    /\ ozc.status \in {"returned", "raised"}
    /\ co' = CoDecide(co, ozc, oz_limit)
    /\ oz_log' = [oz_log EXCEPT
           !.best = IF ozc.status = "returned"
                    THEN Max(@, Len(OzResult(ozc, oz_limit))) ELSE @]
    /\ UNCHANGED <<ozc, oz_limit, _ozon_sem>>
    /\ UNCHANGED <<now, aggVars, loopVars, extVars, bndVars, authVars, wbVars, rateVars>>

\* time.sleep returns (lines 723, 729).
OzWake ==
    /\ co.pc = "sleep"
    /\ co' = CoWake(co)
    /\ UNCHANGED <<ozc, oz_limit, _ozon_sem, oz_log>>
    /\ UNCHANGED <<now, aggVars, loopVars, extVars, bndVars, authVars, wbVars, rateVars>>

\* The finally clause (line 733).
OzQuit ==
    /\ co.pc = "quit"
    /\ co' = CoQuit(co)
    /\ UNCHANGED <<ozc, oz_limit, _ozon_sem, oz_log>>
    /\ UNCHANGED <<now, aggVars, loopVars, extVars, bndVars, authVars, wbVars, rateVars>>

\* collect_ozon leaves "async with _ozon_sem", by return or by exception
\* (line 713).
OzExit ==
    /\ co.pc = "done"
    /\ _ozon_sem' = _ozon_sem + 1
    /\ co' = [co EXCEPT !.pc = "out"]
    /\ UNCHANGED <<ozc, oz_limit, oz_log>>
    /\ UNCHANGED <<now, aggVars, loopVars, extVars, bndVars, authVars, wbVars, rateVars>>

InitOzon ==
    /\ env = [n \in EnvNames |-> "unset"]
    /\ now = 0
    /\ _cache = [k \in Keys |-> None]
    /\ req = [r \in ReqIds |-> ReqInit]
    /\ served = [k \in Keys |-> None]
    /\ wbc = WbInit
    /\ wb_limit = 0
    /\ wb_log = <<>>
    /\ RateInit
    /\ co = CoWaiting
    /\ ozc = OzInit
    /\ oz_limit \in 0..MaxLimit
    /\ _ozon_sem = OZON_BROWSER_LIMIT
    /\ oz_log = [best |-> 0, grown |-> FALSE, grew |-> FALSE, blocked |-> "no"]
    /\ LoopIdle
    /\ ExtractIdle
    /\ BoundsIdle
    /\ AuthInit

NextOzon ==
    \/ OzEnter
    \/ \E how \in DriverOutcomes : OzNewDriver(how)
    \/ \E nav \in {"raise", "block", "notiles", "ok"} : OzNavigate(nav)
    \/ \E obs \in OzObservations : OzScrollRound(obs)
    \/ \E obs \in OzObservations : OzFinalPass(obs)
    \/ OzDecide
    \/ OzWake
    \/ OzQuit
    \/ OzExit

SpecOzon == InitOzon /\ [][NextOzon]_vars

\* ------------------------------------- collect_ozon calls on the event loop

\* The coroutines of collect_ozon run on one event loop thread; what they
\* hand to asyncio.to_thread runs beside it.  A step below is what a
\* coroutine does on the loop between two awaits, and it needs the loop
\* thread: loop = 0.

LoopFrame == UNCHANGED <<now, aggVars, wbVars, rateVars, extVars, bndVars, authVars, co, ozc, oz_limit, oz_log>>

\* The scripts an attempt's collection can meet.
LoopScripts == {OzScriptRaise, OzScriptBlock, OzScriptEmpty, OzScriptOne, OzScriptTwo}

\* "async with _ozon_sem" admits the call (line 713).
LoopEnter(i) ==
    /\ loop = 0
    /\ task[i].pc = "wait"
    /\ _ozon_sem > 0
    /\ _ozon_sem' = _ozon_sem - 1
    /\ task' = [task EXCEPT ![i] = CoInit]
    /\ UNCHANGED <<loop, other>>
    /\ LoopFrame

\* The await of _new_chrome_driver returns or raises (line 717).
LoopNewDriver(i, how) ==
    /\ loop = 0
    /\ task[i].pc = "new"
    /\ task' = [task EXCEPT ![i] = CoNewDriver(task[i], how)]
    /\ UNCHANGED <<loop, other, _ozon_sem>>
    /\ LoopFrame

\* The await of _ozon_sync_collect returns or raises and the coroutine
\* decides (lines 719-731); when it goes for another attempt it calls
\* time.sleep on the loop thread (lines 723, 729).
LoopCollect(i, script) ==
    /\ loop = 0
    /\ task[i].pc = "collect"
    /\ LET c == CoCollect(task[i], script, OZON_ITEMS)
       IN  /\ task' = [task EXCEPT ![i] = c]
           /\ loop' = IF c.pc = "sleep" THEN i ELSE 0
    /\ UNCHANGED <<other, _ozon_sem>>
    /\ LoopFrame

\* time.sleep returns and the loop thread is free again.
LoopWake(i) ==
    /\ loop = i
    /\ task[i].pc = "sleep"
    /\ task' = [task EXCEPT ![i] = CoWake(task[i])]
    /\ loop' = 0
    /\ UNCHANGED <<other, _ozon_sem>>
    /\ LoopFrame

\* The finally clause: the await of _quit_chrome_driver returns (line 733).
LoopQuit(i) ==
    /\ loop = 0
    /\ task[i].pc = "quit"
    /\ task' = [task EXCEPT ![i] = CoQuit(task[i])]
    /\ UNCHANGED <<loop, other, _ozon_sem>>
    /\ LoopFrame

\* The call leaves "async with _ozon_sem", by return or by exception.
LoopExit(i) ==
    /\ loop = 0
    /\ task[i].pc = "done"
    /\ _ozon_sem' = _ozon_sem + 1
    /\ task' = [task EXCEPT ![i].pc = "out"]
    /\ UNCHANGED <<loop, other>>
    /\ LoopFrame

\* Another task of the loop makes a step: collect_wb resumes from its
\* await (line 502), the probe is dispatched and answered (lines 804-806).
OtherStep(o) ==
    /\ loop = 0
    /\ other' = [other EXCEPT ![o] = 1 - @]
    /\ UNCHANGED <<task, loop, _ozon_sem>>
    /\ LoopFrame

InitLoop ==
    /\ env = [n \in EnvNames |-> "unset"]
    /\ now = 0
    /\ _cache = [k \in Keys |-> None]
    /\ req = [r \in ReqIds |-> ReqInit]
    /\ served = [k \in Keys |-> None]
    /\ wbc = WbInit
    /\ wb_limit = 0
    /\ wb_log = <<>>
    /\ RateInit
    /\ OzonIdle
    /\ LoopIdle
    /\ ExtractIdle
    /\ BoundsIdle
    /\ AuthInit

NextLoop ==
    \/ \E i \in Invs : LoopEnter(i)
    \/ \E i \in Invs, how \in DriverOutcomes : LoopNewDriver(i, how)
    \/ \E i \in Invs, script \in LoopScripts : LoopCollect(i, script)
    \/ \E i \in Invs : LoopWake(i)
    \/ \E i \in Invs : LoopQuit(i)
    \/ \E i \in Invs : LoopExit(i)
    \/ \E o \in OtherTasks : OtherStep(o)

SpecLoop == InitLoop /\ [][NextLoop]_vars

\* ------------------------------------------- the extractors on one batch

\* The longest batch.
MaxBatch == 3

\* The sequences of at most n elements of S.
RECURSIVE SeqsUpTo(_, _)
SeqsUpTo(S, n) ==
    IF n = 0 THEN {<<>>}
    ELSE LET shorter == SeqsUpTo(S, n - 1)
         IN  shorter \cup {Append(q, x) : q \in {r \in shorter : Len(r) = n - 1}, x \in S}

\* A batch: the products of one WB page with the collector's limit
\* (lines 455-492), or the cards of one Ozon page source with what is left
\* to collect (lines 572-617).  Both start on an empty seen-set.
ExtractBatches ==
    {[src |-> "wb", entries |-> e, cap |-> n] :
        e \in SeqsUpTo(WbProducts, MaxBatch), n \in 1..MaxLimit}
    \cup {[src |-> "ozon", entries |-> e, cap |-> n] :
        e \in SeqsUpTo(OzonCards, MaxBatch), n \in 1..MaxLimit}

\* Processing the entry raises.
Malformed(src, e) == IF src = "wb" THEN WbEntryRaises(e) ELSE e.raises

\* The items the extractor of src emits for the entries.
Extracted(src, entries, cap) ==
    IF src = "wb"
    THEN WbExtractPage(entries, [out |-> <<>>, seen |-> {}], cap).out
    ELSE _parse_ozon_html(entries, {}, cap).results

ExtractFrame == UNCHANGED <<now, aggVars, wbVars, rateVars, ozVars, loopVars, bndVars, authVars>>

\* The extractor runs on the batch.
ExtractFull ==
    /\ "full" \notin emitted.did
    /\ emitted' = [emitted EXCEPT
           !.full = Extracted(batch.src, batch.entries, batch.cap),
           !.did = @ \cup {"full"}]
    /\ UNCHANGED batch
    /\ ExtractFrame

\* The extractor runs on the batch's well-formed entries.
ExtractClean ==
    /\ "clean" \notin emitted.did
    /\ LET ok(e) == ~Malformed(batch.src, e)
       IN  emitted' = [emitted EXCEPT
               !.clean = Extracted(batch.src, SelectSeq(batch.entries, ok), batch.cap),
               !.did = @ \cup {"clean"}]
    /\ UNCHANGED batch
    /\ ExtractFrame

InitExtract ==
    /\ env = [n \in EnvNames |-> "unset"]
    /\ now = 0
    /\ _cache = [k \in Keys |-> None]
    /\ req = [r \in ReqIds |-> ReqInit]
    /\ served = [k \in Keys |-> None]
    /\ wbc = WbInit
    /\ wb_limit = 0
    /\ wb_log = <<>>
    /\ RateInit
    /\ OzonIdle
    /\ LoopIdle
    /\ batch \in ExtractBatches
    /\ emitted = [full |-> <<>>, clean |-> <<>>, did |-> {}]
    /\ BoundsIdle
    /\ AuthInit

NextExtract ==
    \/ ExtractFull
    \/ ExtractClean

SpecExtract == InitExtract /\ [][NextExtract]_vars

\* ------------------------------------- one aggregation under any bounds

\* The largest value a loop bound is configured with.
MaxBound == 2

\* The bounds are read with int(os.getenv(...)) (lines 62, 66, 85, 88):
\* any integer; a negative one gives the same empty range as 0.
Configurations ==
    [WB_MAX_RETRIES : 0..MaxBound, WB_MAX_PAGES : 0..MaxBound,
     OZON_SCROLL_ROUNDS : 0..MaxBound, OZON_RETRIES : 0..MaxBound]

BoundsFrame ==
    UNCHANGED <<now, aggVars, wbVars, rateVars, ozVars, loopVars, extVars, authVars, cfg>>

\* The while loop of _wb_api_collect_sync (lines 419, 496): full, whether
\* out has reached the limit.  Another page is fetched, or the loop ends
\* and out[:limit] is returned.
BndWbLoop(full) ==
    /\ agg.wb.pc = "loop"
    /\ agg' = IF ~full /\ agg.wb.pages < cfg.WB_MAX_PAGES
              THEN [agg EXCEPT !.wb.pc = "fetch", !.wb.pages = @ + 1, !.wb.attempts = 0]
              ELSE [agg EXCEPT !.wb.pc = "done", !.wb.result = "list"]
    /\ BoundsFrame

\* The for loop of _wb_urlopen_with_retry (lines 338-373).  An attempt's
\* request returns ("page", "empty": the payload has products or none) or
\* fails ("fail": error response or timeout).  When the range is exhausted
\* the function raises (line 373; a TypeError when it never ran), the
\* exception leaves _wb_api_collect_sync and collect_wb returns []
\* (lines 503-505).
BndWbAttempt(outcome) ==
    /\ agg.wb.pc = "fetch"
    /\ agg' = IF agg.wb.attempts >= cfg.WB_MAX_RETRIES
              THEN [agg EXCEPT !.wb.pc = "done", !.wb.result = "list"]
              ELSE IF outcome = "fail"
              THEN [agg EXCEPT !.wb.attempts = @ + 1]
              ELSE IF outcome = "empty"
              THEN [agg EXCEPT !.wb.attempts = @ + 1, !.wb.pc = "done",
                               !.wb.result = "list"]
              ELSE [agg EXCEPT !.wb.attempts = @ + 1, !.wb.pc = "loop"]
    /\ BoundsFrame

\* The for loop of collect_ozon (lines 716-717): the next attempt asks for
\* its driver, which starts or raises; the exception leaves collect_ozon.
\* When the range is exhausted the function ends without a return
\* statement: its value is None.
BndOzAttempt(how) ==
    /\ agg.oz.pc = "start"
    /\ agg' = IF agg.oz.attempts >= cfg.OZON_RETRIES
              THEN [agg EXCEPT !.oz.pc = "done", !.oz.result = "None"]
              ELSE IF how = "ok"
              THEN [agg EXCEPT !.oz.attempts = @ + 1, !.oz.rounds = 0, !.oz.pc = "rounds"]
              ELSE [agg EXCEPT !.oz.attempts = @ + 1, !.oz.pc = "done",
                               !.oz.result = "raised"]
    /\ BoundsFrame

\* The decision of lines 720-731 on an attempt that gave enough, gave too
\* little ("low") or raised.
BndOzDecide(a, yield) ==
    IF yield # "enough" /\ a.oz.attempts - 1 < cfg.OZON_RETRIES - 1
    THEN [a EXCEPT !.oz.pc = "start"]
    ELSE [a EXCEPT !.oz.pc = "done", !.oz.result = "list"]

\* The for loop of _ozon_sync_collect (lines 673-707).  A round goes on
\* ("go"), or ends the run: by break and final pass with a yield
\* ("enough", "low"), or by an exception or timeout ("raise").  When the
\* range is exhausted the final pass gives the yield.
BndOzRound(obs) ==
    /\ agg.oz.pc = "rounds"
    /\ agg' = IF agg.oz.rounds >= cfg.OZON_SCROLL_ROUNDS
              THEN BndOzDecide(agg, IF obs \in {"go", "raise"} THEN "low" ELSE obs)
              ELSE IF obs = "go"
              THEN [agg EXCEPT !.oz.rounds = @ + 1]
              ELSE BndOzDecide([agg EXCEPT !.oz.rounds = @ + 1],
                               IF obs = "raise" THEN "low" ELSE obs)
    /\ BoundsFrame

\* gather has both results and get_products builds its response
\* (lines 782-801): iterating over a part that is None raises TypeError,
\* which the framework answers with 500.
BndRespond ==
    /\ agg.resp = 0
    /\ agg.wb.pc = "done"
    /\ agg.oz.pc = "done"
    /\ agg' = [agg EXCEPT !.resp = IF agg.oz.result = "None" THEN 500 ELSE 200]
    /\ BoundsFrame

InitBounds ==
    /\ env = [n \in EnvNames |-> "unset"]
    /\ now = 0
    /\ _cache = [k \in Keys |-> None]
    /\ req = [r \in ReqIds |-> ReqInit]
    /\ served = [k \in Keys |-> None]
    /\ wbc = WbInit
    /\ wb_limit = 0
    /\ wb_log = <<>>
    /\ RateInit
    /\ OzonIdle
    /\ LoopIdle
    /\ ExtractIdle
    /\ AuthInit
    /\ cfg \in Configurations
    /\ agg = AggStart

NextBounds ==
    \/ \E full \in BOOLEAN : BndWbLoop(full)
    \/ \E outcome \in {"page", "empty", "fail"} : BndWbAttempt(outcome)
    \/ \E how \in {"ok", "raise"} : BndOzAttempt(how)
    \/ \E obs \in {"go", "enough", "low", "raise"} : BndOzRound(obs)
    \/ BndRespond

SpecBounds == InitBounds /\ [][NextBounds]_vars

\* ---------------------------------------------------------- auth service
\* src/backend/auth_service/main.py.  Every handler is an async def that
\* never awaits: on the event loop it runs from its first line to its
\* response without another handler in between, so each is one action.

\* How many tokens uuid4 (line 178) and token_urlsafe (line 324) produce in
\* a run.
MaxTokens == 3

\* Lines 29, 30, in ticks of the clock.
REFRESH_TOKEN_EXPIRE_DAYS == 2
RESET_TOKEN_EXPIRE_MINUTES == 1

\* Lines 83-84: pwd_context.hash, the argon2 hash of the password (its salt
\* is left out: no handler reads it).
get_password_hash(password) == <<"argon2", password>>

\* Lines 80-81: pwd_context.verify hashes the plain password and compares.
verify_password(plain_password, hashed_password) ==
    hashed_password = get_password_hash(plain_password)

\* Lines 86-88: the SHA256 of a reset token.
get_token_hash(token) == <<"sha256", token>>

\* The tokens a client can present: those produced so far, and 0, which was
\* never produced.
Presentable == 0..issued

\* db.query(RefreshTokenModel).filter(token == t) (line 264) and
\* db.query(PasswordResetTokenModel).filter(token_hash == h, used == False)
\* (lines 357-360): the matching rows.
RefreshRows(t) == {row \in refresh_tokens : row.token = t}
ResetRows(h) == {row \in reset_tokens : row.token_hash = h /\ ~row.used}

\* Lines 175-184, create_refresh_token: a token with a fresh jti, its row
\* stored with the expiry, committed.
create_refresh_token(rows, user_id) ==
    rows \cup {[token |-> issued + 1, user_id |-> user_id,
                expires_at |-> now + REFRESH_TOKEN_EXPIRE_DAYS]}

\* Lines 278-279 with the rotation left out: the presented row stays.
RotateOut_keep(rows, row) == rows

\* Lines 278-279: db.delete(db_token); db.commit().
RotateOut(rows, row) == rows \ {row}

\* Line 377 left out: the record stays unused.
MarkUsed_not(row) == row

\* Line 377: reset_record.used = True.
MarkUsed(row) == [row EXCEPT !.used = TRUE]

AuthFrame ==
    UNCHANGED <<aggVars, wbVars, rateVars, ozVars, loopVars, extVars, bndVars>>

Answer(op, status, tok, pw) == [op |-> op, status |-> status, tok |-> tok, pw |-> pw]

\* Lines 212-237, register: 409 for a known e-mail; else the user is stored
\* and a refresh token issued.
Register(e, pw) ==
    /\ IF users[e] # None
       THEN /\ ah' = [ah EXCEPT !.last = Answer("register", 409, 0, "")]
            /\ UNCHANGED <<users, refresh_tokens, issued>>
       ELSE /\ issued < MaxTokens
            /\ users' = [users EXCEPT ![e] = [hashed_password |-> get_password_hash(pw)]]
            /\ refresh_tokens' = create_refresh_token(refresh_tokens, e)
            /\ issued' = issued + 1
            /\ ah' = [ah EXCEPT !.last = Answer("register", 201, 0, "")]
    /\ UNCHANGED <<now, reset_tokens>>
    /\ AuthFrame

\* Lines 239-255, login: 401 for an unknown e-mail or a wrong password; else
\* a refresh token is issued.
Login(e, pw) ==
    /\ IF users[e] = None \/ ~verify_password(pw, users[e].hashed_password)
       THEN /\ ah' = [ah EXCEPT !.last = Answer("login", 401, 0, "")]
            /\ UNCHANGED <<refresh_tokens, issued>>
       ELSE /\ issued < MaxTokens
            /\ refresh_tokens' = create_refresh_token(refresh_tokens, e)
            /\ issued' = issued + 1
            /\ ah' = [ah EXCEPT !.last = Answer("login", 200, 0, "")]
    /\ UNCHANGED <<now, users, reset_tokens>>
    /\ AuthFrame

\* Lines 261-288, refresh_token_endpoint: 401 when no row holds the token;
\* an expired row is deleted and the answer is 401; else the row is deleted
\* and a new token issued for its user.
Refresh(t) ==
    /\ IF RefreshRows(t) = {}
       THEN /\ ah' = [ah EXCEPT !.last = Answer("refresh", 401, t, "")]
            /\ UNCHANGED <<refresh_tokens, issued>>
       ELSE LET db_token == CHOOSE row \in RefreshRows(t) : TRUE
            IN  IF now > db_token.expires_at
                THEN /\ refresh_tokens' = refresh_tokens \ {db_token}
                     /\ ah' = [ah EXCEPT !.last = Answer("refresh", 401, t, "")]
                     /\ UNCHANGED issued
                ELSE /\ issued < MaxTokens
                     /\ refresh_tokens' =
                            create_refresh_token(RotateOut(refresh_tokens, db_token),
                                                 db_token.user_id)
                     /\ issued' = issued + 1
                     /\ ah' = [ah EXCEPT !.last = Answer("refresh", 200, t, ""),
                                         !.spent = @ \cup {t}]
    /\ UNCHANGED <<now, users, reset_tokens>>
    /\ AuthFrame

\* Lines 290-294, logout: the rows with the token are deleted; always 200.
Logout(t) ==
    /\ refresh_tokens' = refresh_tokens \ RefreshRows(t)
    /\ ah' = [ah EXCEPT !.last = Answer("logout", 200, 0, ""),
                        !.revoked = @ \cup {row.token : row \in RefreshRows(t)}]
    /\ UNCHANGED <<now, users, reset_tokens, issued>>
    /\ AuthFrame

\* Lines 296-307, change_password, for the user get_current_user found: 400
\* when the current password is wrong; else the new hash is stored.
ChangePassword(e, current_password, new_password) ==
    /\ users[e] # None
    /\ IF ~verify_password(current_password, users[e].hashed_password)
       THEN /\ ah' = [ah EXCEPT !.last = Answer("change", 400, 0, "")]
            /\ UNCHANGED users
       ELSE /\ users' = [users EXCEPT ![e].hashed_password =
                                          get_password_hash(new_password)]
            /\ ah' = [ah EXCEPT !.last = Answer("change", 200, 0, "")]
    /\ UNCHANGED <<now, refresh_tokens, reset_tokens, issued>>
    /\ AuthFrame

\* Lines 311-351, forgot_password: the same answer whether the e-mail is
\* known or not; for a known one the hash of a fresh token is stored with
\* its expiry, unused.
ForgotPassword(e) ==
    /\ IF users[e] = None
       THEN /\ ah' = [ah EXCEPT !.last = Answer("forgot", 200, 0, "")]
            /\ UNCHANGED <<reset_tokens, issued>>
       ELSE /\ issued < MaxTokens
            /\ reset_tokens' = reset_tokens \cup
                   {[user_id |-> e, token_hash |-> get_token_hash(issued + 1),
                     expires_at |-> now + RESET_TOKEN_EXPIRE_MINUTES, used |-> FALSE]}
            /\ issued' = issued + 1
            /\ ah' = [ah EXCEPT !.last = Answer("forgot", 200, 0, "")]
    /\ UNCHANGED <<now, users, refresh_tokens>>
    /\ AuthFrame

\* Lines 353-380, reset_password: 400 when no unused record holds the
\* token's hash, 400 when the record has expired, 404 when its user is gone;
\* else the password and the used mark are committed together.
ResetPassword(t, new_password) ==
    /\ IF ResetRows(get_token_hash(t)) = {}
       THEN /\ ah' = [ah EXCEPT !.last = Answer("reset", 400, t, new_password)]
            /\ UNCHANGED <<users, reset_tokens>>
       ELSE LET reset_record == CHOOSE row \in ResetRows(get_token_hash(t)) : TRUE
            IN  IF now > reset_record.expires_at
                THEN /\ ah' = [ah EXCEPT !.last = Answer("reset", 400, t, new_password)]
                     /\ UNCHANGED <<users, reset_tokens>>
                ELSE IF users[reset_record.user_id] = None
                THEN /\ ah' = [ah EXCEPT !.last = Answer("reset", 404, t, new_password)]
                     /\ UNCHANGED <<users, reset_tokens>>
                ELSE /\ users' = [users EXCEPT ![reset_record.user_id].hashed_password =
                                                   get_password_hash(new_password)]
                     /\ reset_tokens' = (reset_tokens \ {reset_record})
                                            \cup {MarkUsed(reset_record)}
                     /\ ah' = [ah EXCEPT !.last = Answer("reset", 200, t, new_password),
                                         !.reset_done = @ \cup {t}]
    /\ UNCHANGED <<now, refresh_tokens, issued>>
    /\ AuthFrame

\* datetime.utcnow() moves on between two requests.
AuthTick ==
    /\ now < MaxTime
    /\ now' = now + 1
    /\ UNCHANGED authVars
    /\ AuthFrame

InitAuth ==
    /\ env = [n \in EnvNames |-> "unset"]
    /\ now = 0
    /\ _cache = [k \in Keys |-> None]
    /\ req = [r \in ReqIds |-> ReqInit]
    /\ served = [k \in Keys |-> None]
    /\ wbc = WbInit
    /\ wb_limit = 0
    /\ wb_log = <<>>
    /\ RateInit
    /\ OzonIdle
    /\ LoopIdle
    /\ ExtractIdle
    /\ BoundsIdle
    /\ AuthInit

NextAuth ==
    \/ \E e \in Emails, pw \in Passwords : Register(e, pw)
    \/ \E e \in Emails, pw \in Passwords : Login(e, pw)
    \/ \E t \in Presentable : Refresh(t)
    \/ \E t \in Presentable : Logout(t)
    \/ \E e \in Emails, cur \in Passwords, new \in Passwords :
           ChangePassword(e, cur, new)
    \/ \E e \in Emails : ForgotPassword(e)
    \/ \E t \in Presentable, new \in Passwords : ResetPassword(t, new)
    \/ AuthTick

SpecAuth == InitAuth /\ [][NextAuth]_vars

\* ------------------------------------------------------------------ claims

Items(r) == req[r].resp.payload.items

Answered(r) == req[r].pc = "done" /\ req[r].resp.status = 200

ItemOk(it) ==
    /\ it.url # <<>>
    /\ it.name # <<>>
    /\ it.price # <<>>
    /\ \A i \in 1..Len(it.price) : it.price[i] \in Digits

\* C1 as stated: in every list get_products returns, each item has a
\* non-empty url, name and price, a price of digits only, and no two items
\* of the list share a url.
C1_AsStated ==
    \A r \in ReqIds : Answered(r) =>
        /\ \A i \in 1..Len(Items(r)) : ItemOk(Items(r)[i])
        /\ \A i, j \in 1..Len(Items(r)) :
              Items(r)[i].url = Items(r)[j].url => i = j

\* C1 (amended): in every list get_products returns, each item has a
\* non-empty url, name and price, a price of digits only, and no two items
\* of the same marketplace share a url.
C1_ItemsValid ==
    \A r \in ReqIds : Answered(r) =>
        /\ \A i \in 1..Len(Items(r)) : ItemOk(Items(r)[i])
        /\ \A i, j \in 1..Len(Items(r)) :
              (/\ Items(r)[i].url = Items(r)[j].url
               /\ Items(r)[i].marketplace = Items(r)[j].marketplace) => i = j

\* A harvested answer holds a WB item and an Ozon item with the same url.
C1_Witness ==
    \E r \in ReqIds :
        /\ Answered(r)
        /\ ~req[r].resp.cached
        /\ \E i, j \in 1..Len(Items(r)) :
              /\ Items(r)[i].url = Items(r)[j].url
              /\ Items(r)[i].marketplace = "wildberries"
              /\ Items(r)[j].marketplace = "ozon"

\* The step in which call r leaves "idle" with a query that is not empty.
LooksUp(r) == req[r].pc = "idle" /\ req'[r].pc # "idle" /\ req'[r].key # <<>>

\* C2 as stated: a call for a query whose aggregation ended less than
\* CACHE_TTL ago is answered with that aggregation's payload, at once and
\* without launching a collector.
C2_Idempotent ==
    [][\A r \in ReqIds :
          (/\ LooksUp(r)
           /\ served[req'[r].key] # None
           /\ now - served[req'[r].key].ts < CACHE_TTL)
          => (/\ req'[r].pc = "done"
              /\ req'[r].resp = Response(200, served[req'[r].key].data, TRUE))]_vars

\* C3: a call that finds an entry for its key is answered from it when the
\* entry is younger than CACHE_TTL, the entry staying in place; otherwise
\* the entry is removed by that read and the call goes on to harvest.
C3_CacheExpiry ==
    [][\A r \in ReqIds :
          (LooksUp(r) /\ _cache[req'[r].key] # None)
          => IF now - _cache[req'[r].key].ts < CACHE_TTL
             THEN /\ req'[r].pc = "done"
                  /\ req'[r].resp = Response(200, _cache[req'[r].key].data, TRUE)
                  /\ _cache' = _cache
             ELSE /\ _cache'[req'[r].key] = None
                  /\ req'[r].pc = "gather"]_vars

\* One call has been answered from the cache, and another has met the
\* expired entry, removed it and is harvesting.
C3_Witness ==
    \E r1, r2 \in ReqIds :
        /\ Answered(r1) /\ req[r1].resp.cached
        /\ req[r2].pc = "gather"
        /\ ENABLE_CACHE(env)
        /\ _cache[req[r2].key] = None
        /\ served[req[r2].key] # None
        /\ now - served[req[r2].key].ts >= CACHE_TTL

\* Call r has gathered both sources.
GatheredBoth(r) ==
    req[r].pc = "done" /\ req[r].wb.pc = "done" /\ req[r].oz.pc = "done"

\* C7: when one of the two enabled sources failed and the other returned M
\* items, the call is answered (no error) with exactly min(M, MAX_ITEMS)
\* items, the first ones of the source that succeeded.
C7_PartialFailure ==
    \A r \in ReqIds : GatheredBoth(r) =>
        /\ (req[r].wb.failed /\ ~req[r].oz.failed) =>
              /\ req[r].resp.status = 200
              /\ Items(r) = Take(req[r].oz.part, Min(Len(req[r].oz.part), MAX_ITEMS))
              /\ req[r].resp.payload.count = Min(Len(req[r].oz.part), MAX_ITEMS)
              /\ \A i \in 1..Len(Items(r)) : Items(r)[i].marketplace = "ozon"
        /\ (req[r].oz.failed /\ ~req[r].wb.failed) =>
              /\ req[r].resp.status = 200
              /\ Items(r) = Take(req[r].wb.part, Min(Len(req[r].wb.part), MAX_ITEMS))
              /\ req[r].resp.payload.count = Min(Len(req[r].wb.part), MAX_ITEMS)
              /\ \A i \in 1..Len(Items(r)) : Items(r)[i].marketplace = "wildberries"

\* The Ozon collector failed, WB returned more items than the output cap,
\* and the call has been answered.
C7_Witness ==
    \E r \in ReqIds :
        /\ GatheredBoth(r)
        /\ req[r].oz.failed /\ ~req[r].wb.failed
        /\ Len(req[r].wb.part) > MAX_ITEMS
        /\ req[r].resp.status = 200

\* C8 as stated: a call all of whose enabled sources failed is not answered
\* with a successful response.
C8_AllFailedIsError ==
    \A r \in ReqIds :
        (/\ req[r].pc = "done"
         /\ req[r].resp # None
         /\ ~req[r].resp.cached
         /\ req[r].wb.pc = "done" \/ req[r].oz.pc = "done"
         /\ req[r].wb.pc = "done" => req[r].wb.failed
         /\ req[r].oz.pc = "done" => req[r].oz.failed)
        => req[r].resp.status # 200

\* C9 as stated: when the fetch of a page ends in its terminal error, the
\* items accumulated before it are still in the list collect_wb returns,
\* and the next page is fetched when there is one and the limit is not met.
C9_PageIsolation ==
    \A i \in 1..Len(wb_log) :
        (wb_log[i].kind = "error" /\ wbc.status # "run") =>
            /\ \A k \in 1..Len(wb_log[i].had) :
                  \E m \in 1..Len(collect_wb_result(wbc, wb_limit)) :
                      collect_wb_result(wbc, wb_limit)[m] = wb_log[i].had[k]
            /\ (i < WB_MAX_PAGES /\ Len(wb_log[i].had) < wb_limit) => Len(wb_log) > i


\* ---------------------------------------------- claims of the rate limiter

\* The step in which caller c sends a request.
Sends(c) == caller[c].pc = "send" /\ caller'[c].pc = "await"

\* The step in which caller c stamps _wb_last_request_ts.
Stamps(c) == caller[c].pc \in {"lock", "pace"} /\ caller'[c].pc = "send"

\* The step in which caller c begins a retry.
StartsRetry(c) == caller[c].pc = "backoff" /\ caller'[c].pc \in {"blocked", "lock"}

\* C4 as stated: for callers started at the same time, any two consecutive
\* outbound requests, of any callers, are at least WB_MIN_INTERVAL apart.
C4_AsStated ==
    [][\A c \in Callers :
          (Sends(c) /\ rh.issue # "apart" /\ rh.sends > 0)
          => now - rh.last_send >= WB_MIN_INTERVAL]_vars

\* C4: the stamps the rate limiter takes under its lock, one before each
\* outbound request, are serialized: any two consecutive stamps, of any
\* callers, are at least WB_MIN_INTERVAL apart, hence the Nth stamp is at
\* least (N-1) x WB_MIN_INTERVAL after the first.
C4_StampsSpaced ==
    [][\A c \in Callers :
          Stamps(c)
          => /\ _wb_last_request_ts' = now
             /\ _wb_rate_lock' = {}
             /\ rh.stamps > 0 => now - _wb_last_request_ts >= WB_MIN_INTERVAL
             /\ now - rh'.first_stamp >= rh.stamps * WB_MIN_INTERVAL]_vars

\* Two callers started at the same time have both stamped, the second
\* after pacing.
C4_Witness ==
    /\ rh.issue = "same"
    /\ rh.stamps = WB_CONCURRENT_LIMIT
    /\ _wb_last_request_ts - rh.first_stamp >= WB_MIN_INTERVAL
    /\ \A c \in Callers : caller[c].pc \in {"send", "await"} /\ caller[c].attempt = 0

\* C5 as stated: after a 429 on attempt k the caller's next attempt is sent
\* no earlier than WB_BACKOFF_BASE^k after the throttled one, the 429
\* declares a cooldown, and a call issued during the cooldown waits for its
\* end before sending.
C5_AsStated ==
    [][\A c \in Callers :
          /\ (Sends(c) /\ caller[c].thr.k # "none")
             => now - caller[c].sent >= Pow(WB_BACKOFF_BASE, caller[c].attempt)
          /\ (caller[c].pc = "await" /\ caller'[c].thr.k # "none")
             => _wb_blocked_until' >= caller'[c].wake
          /\ (Sends(c) /\ caller[c].attempt = 0)
             => now >= caller[c].floor]_vars

\* C5: after a 429 on attempt k the caller's next attempt, if there is one,
\* is sent no earlier than min(WB_BACKOFF_MAX, WB_BACKOFF_BASE^k) after the
\* throttled one when the response had no Retry-After that float() parses,
\* and no earlier than that Retry-After when it had; with WB_GLOBAL_COOLDOWN
\* on, the 429 declares a cooldown that lasts at least as long as the
\* caller's own sleep; and a call issued during a declared cooldown waits
\* for its end before sending.
C5_Backoff ==
    [][\A c \in Callers :
          /\ (Sends(c) /\ caller[c].thr.k = "nohint")
             => now - caller[c].sent
                >= Min(WB_BACKOFF_MAX, Pow(WB_BACKOFF_BASE, caller[c].attempt))
          /\ (Sends(c) /\ caller[c].thr.k = "hint")
             => now - caller[c].sent >= caller[c].thr.v
          /\ (Sends(c) /\ caller[c].attempt = 0)
             => now >= caller[c].floor
          /\ (/\ caller[c].pc = "await"
              /\ caller'[c].pc = "backoff"
              /\ caller'[c].thr.k # "none"
              /\ WB_GLOBAL_COOLDOWN(env))
             => _wb_blocked_until' >= caller'[c].wake]_vars

\* A caller has sent its third attempt after a 429 without a hint, its
\* backoff capped by WB_BACKOFF_MAX, while a call issued during the
\* cooldown has waited for it.
C5_Witness ==
    \E c, d \in Callers :
        /\ c # d
        /\ caller[c].pc = "await"
        /\ caller[c].attempt = 2
        /\ caller[c].thr.k = "nohint"
        /\ caller[c].sent = now
        /\ Pow(WB_BACKOFF_BASE, 2) > WB_BACKOFF_MAX
        /\ caller[d].pc = "blocked"
        /\ caller[d].attempt = 0
        /\ caller[d].wake <= now

\* C6: no caller sends a request at a time earlier than the declared
\* _wb_blocked_until, a caller that checked the cooldown before another
\* caller declared it included.
C6_CooldownSafety ==
    [][\A c \in Callers : Sends(c) => now >= _wb_blocked_until]_vars

\* The deadline of a request, from its start.
Deadline == 2

\* C10: no call starts a retry after the deadline of its request.  The
\* request began no later than the call sent its last attempt, so a retry
\* within the deadline begins at most Deadline after that attempt.
C10_DeadlineHonored ==
    [][\A c \in Callers :
          StartsRetry(c) => now - caller[c].sent <= Deadline]_vars


\* ------------------------------------------- claims of the browser collector

\* C11: every browser session the collector created is released on every
\* exit path of the attempt, so that between attempts and when collect_ozon
\* is left no session is live, and the permit is back.
C11_SessionDiscipline ==
    /\ co.pc \in {"new", "done", "out"} => co.live = 0
    /\ co.pc = "out" => _ozon_sem = OZON_BROWSER_LIMIT


\* The step in which a round of the scroll loop scrolls the page.
Scrolls == co.pc = "collect" /\ ozc.status = "loop" /\ ozc'.scrolls > ozc.scrolls

\* C12: on a page whose tiles never grow, by scroll or by load-more click,
\* the collector leaves its loop after at most OZON_STAGNATION_LIMIT rounds,
\* fewer than OZON_SCROLL_ROUNDS; a round with growth resets the stagnation
\* counter to zero, a round without adds one to it.
C12_Stagnation ==
    [][Scrolls =>
          /\ ozc'.stagnation = IF oz_log'.grew THEN 0 ELSE ozc.stagnation + 1
          /\ ~oz_log'.grown
             => /\ ozc'.rounds <= OZON_STAGNATION_LIMIT
                /\ ozc'.status = "loop" => ozc'.rounds < OZON_STAGNATION_LIMIT]_vars

\* The loop was left for stagnation alone: no growth, the limit not
\* reached, rounds of the budget still unused.
C12_Witness ==
    /\ co.pc = "collect"
    /\ ozc.status = "final"
    /\ ~oz_log.grown
    /\ ozc.stagnation = OZON_STAGNATION_LIMIT
    /\ ozc.rounds = OZON_STAGNATION_LIMIT
    /\ ozc.rounds < OZON_SCROLL_ROUNDS
    /\ Len(ozc.results) < oz_limit


\* The urls of a list of items.
Urls(items) == {items[i].url : i \in 1..Len(items)}

\* C13: within one run of the scroll collector no url is emitted twice, in
\* whatever round or in the final pass the tile shows again: each pass emits
\* only urls that were not in the seen-set, the seen-set only grows and
\* holds every url emitted.
C13_DedupAcrossRounds ==
    [][(co.pc = "collect" /\ co'.pc = "collect" /\ ozc.status \in {"loop", "final"})
       => /\ ozc.seen \subseteq ozc'.seen
          /\ Urls(ozc'.results) \subseteq ozc'.seen
          /\ \A i \in 1..Len(ozc'.results) :
                /\ i <= Len(ozc.results) => ozc'.results[i] = ozc.results[i]
                /\ i > Len(ozc.results) => ozc'.results[i].url \notin ozc.seen
          /\ \A i, j \in 1..Len(ozc'.results) :
                i # j => ozc'.results[i].url # ozc'.results[j].url]_vars

\* A later pass met again a tile it had emitted, and emitted only the new one.
C13_Witness ==
    /\ co.pc = "collect"
    /\ ozc.status = "returned"
    /\ ozc.rounds >= 2
    /\ Len(ozc.results) = 2
    /\ ozc.results[1] = OzonItem(OzCardRel7)
    /\ ozc.results[2] = OzonItem(OzCardRel9)


\* collect_ozon is over without an attempt that reached need_min.
AllAttemptsLow ==
    /\ co.pc \in {"done", "out"}
    /\ co.failed \/ Len(co.part) < need_min(oz_limit)

\* C14: when every attempt yields fewer items than need_min or raises,
\* collect_ozon does not raise and returns a list at least as long as the
\* one any single attempt harvested.
C14_BestResult ==
    AllAttemptsLow => ~co.exc /\ Len(co.part) >= oz_log.best


\* C19: every profile directory made for a browser session is deleted by
\* the time the call of collect_ozon that made it is over, also when the
\* construction of the browser fails after the directory was made.
C19_ProfileDirsDeleted ==
    co.pc \in {"done", "out"} => co.dirs = 0

\* The step in which an attempt begins: collect_ozon asks for its driver.
StartsAttempt == co.pc = "new" /\ co'.pc # "new"

\* C20: collect_ozon makes at most OZON_RETRIES attempts; an attempt whose
\* yield is at least min(limit, OZON_MIN_ITEMS) is the last one, and its
\* items are what is returned; each attempt runs on a session made for it
\* after the one before was disposed, and starts with an empty seen-set and
\* an empty result list.
C20_RetryProtocol ==
    [][/\ StartsAttempt
          => /\ co.attempt < OZON_RETRIES
             /\ co.live = 0
             /\ co.made = co.attempt
             /\ co.attempt > 0
                => co.failed \/ Len(co.part) < Min(oz_limit, OZON_MIN_ITEMS)
             /\ co'.pc = "collect"
                => co'.live = 1 /\ co'.made = co.made + 1 /\ ozc' = OzInit
       /\ (co.pc = "collect" /\ ozc.status = "nav")
          => ozc.seen = {} /\ ozc.results = <<>>
       /\ (co.pc = "collect" /\ co'.pc # "collect" /\ ozc.status = "returned"
              /\ Len(OzResult(ozc, oz_limit)) >= Min(oz_limit, OZON_MIN_ITEMS))
          => co'.pc = "quit" /\ co'.next = "return" /\ co'.part = OzResult(ozc, oz_limit)
       /\ (co.pc = "quit" /\ co.next = "return")
          => co'.pc = "done" /\ co'.part = co.part /\ co'.live = 0]_vars

\* The second attempt runs on the second session, its seen-set empty, after
\* a first attempt that harvested an item, too few.
C20_Witness ==
    /\ co.pc = "collect"
    /\ co.attempt = 1
    /\ co.made = 2
    /\ co.live = 1
    /\ Len(co.part) = 1
    /\ ozc.status = "loop"
    /\ ozc.seen = {}


\* ------------------------------------- claims of collection and aggregation

\* C15: when a fetched page yields no usable item, its entries all dropped
\* by validation and dedup or its list empty, the collector fetches no
\* further page: every page fetched before another one added an item.
C15_StopsOnUnproductivePage ==
    \A i \in 1..Len(wb_log) :
        i < Len(wb_log) => wb_log[i + 1].had # wb_log[i].had

\* The step in which get_products builds its response from the gather.
Finishes(r) == req[r].pc = "gather" /\ req'[r].pc = "done"

\* What a branch of the gather contributes.
PartOf(b) == IF b.pc = "done" /\ ~b.exc THEN b.part ELSE <<>>

\* C16: the aggregated list is the first MAX_ITEMS elements of the WB
\* collector's list followed by the Ozon collector's list, whichever
\* collector finished first, and the response's count is the length of its
\* item list.
C16_MergeOrderAndCap ==
    [][\A r \in ReqIds :
          Finishes(r)
          => /\ req'[r].resp.status = 200
             /\ req'[r].resp.payload.items
                = Take(PartOf(req[r].wb) \o PartOf(req[r].oz), MAX_ITEMS)
             /\ req'[r].resp.payload.count = Len(req'[r].resp.payload.items)]_vars

\* Both collectors contributed, WB's item first, and the cap cut the list.
C16_Witness ==
    \E r \in ReqIds :
        /\ Answered(r)
        /\ ~req[r].resp.cached
        /\ req[r].wb.part # <<>>
        /\ req[r].oz.part # <<>>
        /\ Len(req[r].wb.part) + Len(req[r].oz.part) > MAX_ITEMS
        /\ Len(Items(r)) = MAX_ITEMS
        /\ Items(r)[1].marketplace = "wildberries"
        /\ Items(r)[MAX_ITEMS].marketplace = "ozon"

\* Both marketplaces are switched off.
NoSourceEnabled == env["ENABLE_WB"] = "0" /\ env["ENABLE_OZON"] = "0"

\* C17: with no source enabled a request with a query is rejected with the
\* configuration error (status 500), no collector is launched and nothing
\* is stored in the cache.
C17_ConfigurationError ==
    NoSourceEnabled
    => /\ \A k \in Keys : _cache[k] = None
       /\ \A r \in ReqIds :
             /\ req[r].pc # "gather"
             /\ req[r].wb.pc = "off" /\ req[r].oz.pc = "off"
             /\ (req[r].pc = "done" /\ req[r].key # <<>>) => req[r].resp.status = 500

\* No source is enabled, the cache is, and a request was rejected.
C17_Witness ==
    /\ NoSourceEnabled
    /\ ENABLE_CACHE(env)
    /\ \E r \in ReqIds : req[r].pc = "done" /\ req[r].key # <<>> /\ req[r].resp.status = 500

\* Every enabled source of the request's gather failed.
AllSourcesFailed(q) ==
    /\ q.wb.pc = "done" \/ q.oz.pc = "done"
    /\ q.wb.pc = "done" => q.wb.failed
    /\ q.oz.pc = "done" => q.oz.failed

\* C18: a cache entry is created only after a successful aggregation: one
\* in which every enabled source failed stores nothing.
C18_NoEntryForFailedAggregation ==
    [][\A r \in ReqIds :
          (Finishes(r) /\ AllSourcesFailed(req[r])) => _cache' = _cache]_vars


\* C21: the paginated collector requests pages 1, 2, ... in sequence, at
\* most WB_MAX_PAGES of them, none once the item count has reached the
\* limit, and returns at most limit items, their urls pairwise distinct.
C21_PaginationBounds ==
    /\ Len(wbc.fetched) <= WB_MAX_PAGES
    /\ \A i \in 1..Len(wbc.fetched) : wbc.fetched[i] = i
    /\ Len(wb_log) = Len(wbc.fetched)
    /\ \A i \in 1..Len(wb_log) : Len(wb_log[i].had) < wb_limit
    /\ Len(wbc.out) <= Max(wb_limit, 0)
    /\ Len(collect_wb_result(wbc, wb_limit)) <= wb_limit
    /\ \A i, j \in 1..Len(wbc.out) : i # j => wbc.out[i].url # wbc.out[j].url

\* The collector returned after WB_MAX_PAGES pages, the limit reached on
\* the last one.
C21_Witness ==
    /\ wbc.status = "returned"
    /\ wbc.fetched = <<1, 2>>
    /\ Len(wb_log[2].had) = 1
    /\ Len(collect_wb_result(wbc, wb_limit)) = wb_limit
    /\ wb_limit = 2


\* C22: a ban page met right after navigation ends the attempt at once,
\* with no wait for tiles, no extraction and no scroll, and the attempt
\* yields nothing; a ban page met at the start of a later round ends the
\* scrolling of that attempt.
C22_BanStopsHarvest ==
    [][co'.pc = "collect"
       => /\ oz_log'.blocked = "nav"
             => /\ ozc'.status = "returned"
                /\ ozc'.waits = 0 /\ ozc'.rounds = 0 /\ ozc'.scrolls = 0
                /\ ozc'.seen = {} /\ OzResult(ozc', oz_limit) = <<>>
          /\ oz_log'.blocked = "round"
             => /\ ozc'.status \in {"final", "returned", "raised"}
                /\ ozc'.scrolls = ozc.scrolls]_vars

\* The ban page came in the second round, after a scroll and an item.
C22_Witness ==
    /\ co.pc = "collect"
    /\ oz_log.blocked = "round"
    /\ ozc.status = "returned"
    /\ ozc.rounds = 2
    /\ ozc.scrolls = 1
    /\ Len(ozc.results) = 1


\* C23: for any limit >= 0 the scroll collector returns at most limit
\* items, scrolls no more once the cap is reached, and makes its final
\* extraction pass only when the loop collected fewer than limit items.
C23_ScrollCap ==
    [][co'.pc = "collect" /\ co.pc = "collect"
       => /\ Len(OzResult(ozc', oz_limit)) <= oz_limit
          /\ ozc'.scrolls > ozc.scrolls => Len(ozc'.results) < oz_limit
          /\ (ozc.status = "final" /\ ozc'.results # ozc.results)
             => Len(ozc.results) < oz_limit]_vars


\* The response the caller awaited was a 429: it sleeps as a throttled
\* caller, or the sleep raised and the call is over.
Gets429(c) ==
    /\ caller[c].pc = "await"
    /\ \/ caller'[c].pc = "raised"
       \/ caller'[c].pc = "backoff" /\ caller'[c].thr.k # "none"

\* The response was another failure (lines 359-372).
GetsTransient(c) ==
    /\ caller[c].pc = "await"
    /\ caller'[c].pc = "backoff"
    /\ caller'[c].thr.k = "none"

\* The response was read (line 342).
GetsOk(c) == caller[c].pc = "await" /\ caller'[c].pc = "returned"

\* C24: _wb_blocked_until changes only when an attempt receives a 429; a
\* transient failure and a successful response leave it unchanged; and an
\* attempt that failed in either way goes on to its backoff sleep.
C24_CooldownOnlyByThrottling ==
    [][/\ _wb_blocked_until' # _wb_blocked_until => \E c \in Callers : Gets429(c)
       /\ \A c \in Callers :
             /\ GetsTransient(c) \/ GetsOk(c) => _wb_blocked_until' = _wb_blocked_until
             /\ Gets429(c) \/ GetsTransient(c)
                => caller'[c].pc = "backoff" /\ caller'[c].wake > now]_vars

\* C25: after a 429 the caller sleeps for the Retry-After when float()
\* parses it and otherwise for min(WB_BACKOFF_MAX, WB_BACKOFF_BASE^(attempt+1)
\* + jitter); a cooldown the 429 declares ends with that sleep; and whatever
\* the Retry-After, the call goes on to its sleep and its next attempt.
C25_ThrottleDelay ==
    [][\A c \in Callers :
          Gets429(c)
          => /\ caller'[c].pc = "backoff"
             /\ caller'[c].thr.k = "hint"
                => caller'[c].wake = now + caller'[c].thr.v
             /\ caller'[c].thr.k = "nohint"
                => \E j \in Jitter :
                      caller'[c].wake = now + BackoffDelay(caller[c].attempt, j)
             /\ _wb_blocked_until' # _wb_blocked_until
                => _wb_blocked_until' = caller'[c].wake]_vars


\* C30: however the callers of _wb_set_block interleave, _wb_blocked_until
\* never decreases: a later, shorter declaration does not shorten the
\* cooldown in effect.
C30_CooldownMonotone ==
    [][_wb_blocked_until' >= _wb_blocked_until]_vars

\* A 429 has declared an end earlier than the cooldown in effect, and its
\* caller sleeps while the longer cooldown still stands.
C30_Witness ==
    \E c \in Callers :
        /\ rh.kept
        /\ WB_GLOBAL_COOLDOWN(env)
        /\ caller[c].pc = "backoff" /\ caller[c].thr.k = "hint"
        /\ now < caller[c].wake
        /\ caller[c].wake < _wb_blocked_until


\* The browser sessions that exist: those the calls created and did not quit.
RECURSIVE LiveOf(_)
LiveOf(S) == IF S = {} THEN 0
             ELSE LET i == CHOOSE x \in S : TRUE IN task[i].live + LiveOf(S \ {i})

LiveSessions == LiveOf(Invs)

\* The call holds a driver: between its creation and the finally clause.
HoldsDriver(i) == task[i].pc \in {"collect", "sleep", "quit"}

\* C26: whatever the number of concurrent requests, at most
\* OZON_BROWSER_LIMIT browser sessions exist at any time, and a session is
\* used by one call of the collector only: a call that holds a driver holds
\* one session, its own.
C26_BrowserBound ==
    /\ LiveSessions <= OZON_BROWSER_LIMIT
    /\ Cardinality({i \in Invs : HoldsDriver(i)}) <= OZON_BROWSER_LIMIT
    /\ \A i \in Invs : HoldsDriver(i) => task[i].live = 1

\* C27: no blocking operation runs on the event loop thread; while a call
\* of the browser collector pauses between two attempts, every other task
\* of the loop can make its next step.
C27_LoopNeverStalls ==
    /\ loop = 0
    /\ \A i \in Invs :
          task[i].pc = "sleep" => \A o \in OtherTasks : ENABLED OtherStep(o)


\* C28: in both extractors an entry whose processing raises does not end
\* the batch: the items emitted for a batch are the items emitted for the
\* batch without its malformed entries, in the same order.
C28_EntryIsolation ==
    emitted.did = {"full", "clean"} => emitted.full = emitted.clean

\* A batch of three cards whose second is malformed and whose third is
\* emitted after the first.
C28_Witness ==
    /\ emitted.did = {"full", "clean"}
    /\ batch.src = "ozon"
    /\ Len(batch.entries) = 3
    /\ ~Malformed(batch.src, batch.entries[1])
    /\ Malformed(batch.src, batch.entries[2])
    /\ Len(emitted.full) = 2
    /\ emitted.full[2] = OzonItem(batch.entries[3])

\* The payload resolves the product's price, url and name.
WbPriceResolved(p) ==
    IF p.sizes_product # None THEN p.sizes_product.t = "int"
    ELSE \/ Truthy(p.priceU) /\ p.priceU.t = "int"
         \/ ~Truthy(p.priceU) /\ Truthy(p.salePriceU) /\ p.salePriceU.t = "int"

WbResolved(p) == p.id # "" /\ p.name # <<>> /\ WbPriceResolved(p)

\* The card resolves the tile's url, price and name.
OzonResolved(card) ==
    /\ ~card.raises
    /\ OzonHasHref(card) /\ OzonUrl(card) # <<>>
    /\ card.price_tag # None /\ digits_only(card.price_tag.s) # <<>>
    /\ OzonName(card) # <<>>

Resolved(src, e) == IF src = "wb" THEN WbResolved(e) ELSE OzonResolved(e)

UrlOf(src, e) == IF src = "wb" THEN WbLink(e.id) ELSE OzonUrl(e)

\* C29: in both extractors an entry whose name, url or price cannot be
\* resolved from the payload is left out, and an entry whose three required
\* fields are resolved is emitted, with or without rating, reviews and
\* image, unless the cap ended the batch before it or an earlier entry had
\* its url.
C29_RequiredAndOptional ==
    "full" \in emitted.did
    => /\ Len(emitted.full)
          <= Cardinality({i \in 1..Len(batch.entries) :
                            Resolved(batch.src, batch.entries[i])})
       /\ \A i \in 1..Len(batch.entries) :
             (Resolved(batch.src, batch.entries[i]) /\ Len(emitted.full) < batch.cap)
             => \E k \in 1..Len(emitted.full) :
                   emitted.full[k].url = UrlOf(batch.src, batch.entries[i])


\* C31: whatever the loop bounds are configured to, a page fetch makes at
\* most WB_MAX_RETRIES attempts, the WB collector fetches at most
\* WB_MAX_PAGES pages, a scroll run has at most OZON_SCROLL_ROUNDS rounds,
\* the browser collector makes at most OZON_RETRIES attempts, and a
\* collector that has ended has returned a list.
C31_BoundedWork ==
    /\ agg.wb.attempts <= cfg.WB_MAX_RETRIES
    /\ agg.wb.pages <= cfg.WB_MAX_PAGES
    /\ agg.oz.rounds <= cfg.OZON_SCROLL_ROUNDS
    /\ agg.oz.attempts <= cfg.OZON_RETRIES
    /\ agg.wb.pc = "done" => agg.wb.result = "list"
    /\ agg.oz.pc = "done" => agg.oz.result = "list"

\* A step that served POST /api/auth/refresh: every handler leaves its own
\* name in the last response and none moves the clock.
RefreshStep == now' = now /\ ah'.last.op = "refresh"

\* The rows that hold token t in a refresh_tokens table, and whether one of
\* them is past its expiry at time c.
Holding(rows, t) == {row \in rows : row.token = t}
Expired(rows, t, c) == \E row \in Holding(rows, t) : c > row.expires_at

\* C32: refresh-token rotation.  A refresh with a token that no row holds,
\* that an earlier refresh consumed or that a logout removed is answered 401
\* and changes no row; a refresh with an expired token is answered 401 and
\* its row is removed; any other refresh succeeds, removes the presented
\* token's row and stores a row with a token never issued before for the
\* same user, so that the presented token is usable at most once.
C32_RefreshRotation ==
    [][RefreshStep =>
        LET t == ah'.last.tok
            held == Holding(refresh_tokens, t)
        IN  /\ (held = {} \/ t \in ah.spent \/ t \in ah.revoked) =>
                   /\ ah'.last.status = 401
                   /\ refresh_tokens' = refresh_tokens
            /\ (held # {} /\ Expired(refresh_tokens, t, now)) =>
                   /\ ah'.last.status = 401
                   /\ refresh_tokens' = refresh_tokens \ held
            /\ (held # {} /\ ~Expired(refresh_tokens, t, now)) =>
                   /\ ah'.last.status = 200
                   /\ Holding(refresh_tokens', t) = {}
                   /\ \E new \in refresh_tokens' :
                          /\ new.token > issued
                          /\ new.user_id \in {row.user_id : row \in held}
                          /\ refresh_tokens' = (refresh_tokens \ held) \cup {new}
    ]_vars

\* A token that a refresh had consumed was presented again and refused.
C32_Witness ==
    /\ ah.last.op = "refresh"
    /\ ah.last.status = 401
    /\ ah.last.tok \in ah.spent

\* A step that served POST /api/auth/reset-password.
ResetStep == now' = now /\ ah'.last.op = "reset"

\* The records of a password_reset_tokens table made for token t, used or
\* not.
Records(rows, t) == {row \in rows : row.token_hash = get_token_hash(t)}

\* C33: password-reset tokens are single-use and time-limited.  A reset
\* with a token that has no record, whose record is marked used or has
\* served a reset before, or whose record is past its expiry is answered
\* 400 and changes neither the users nor the records; any other reset is
\* answered 200 and, in that one step, the record's user gets the new
\* password and the record is marked used, nothing else changing.
C33_ResetSingleUse ==
    [][ResetStep =>
        LET t == ah'.last.tok
            recs == Records(reset_tokens, t)
        IN  IF \/ recs = {}
               \/ t \in ah.reset_done
               \/ \E row \in recs : row.used \/ now > row.expires_at
            THEN /\ ah'.last.status = 400
                 /\ users' = users
                 /\ reset_tokens' = reset_tokens
            ELSE /\ ah'.last.status = 200
                 /\ \E row \in recs :
                        /\ verify_password(ah'.last.pw, users'[row.user_id].hashed_password)
                        /\ \A e \in Emails \ {row.user_id} : users'[e] = users[e]
                        /\ reset_tokens' = (reset_tokens \ {row})
                                               \cup {[row EXCEPT !.used = TRUE]}
    ]_vars

\* A token that had served a reset was presented again and refused.
C33_Witness ==
    /\ ah.last.op = "reset"
    /\ ah.last.status = 400
    /\ ah.last.tok \in ah.reset_done

====
